---- MODULE Spec2Model ----
(***************************************************************************)
(* A model of GUI-PM2-Monitor (src/main.py).                               *)
(*                                                                         *)
(* Part 1, the session: SSHClientWrapper with its lock, connect(),         *)
(* check_required_commands(), execute_command() and close(), run by the    *)
(* constructing/UI thread (process 0) and by worker threads.  Every        *)
(* process has a call stack of frames; a frame is one activation of        *)
(* connect(), execute_command() or close().                                *)
(*                                                                         *)
(* Part 2, the table: all_services, filtered_services, the search text     *)
(* and the rows of the Treeview, with filter_services(),                   *)
(* update_treeview() and sort_column().                                    *)
(*                                                                         *)
(* Part 3, the application around them: the auto-refresh timer, the        *)
(* refresh button, the fetch_and_display threads, the preferences and      *)
(* control_service.                                                        *)
(*                                                                         *)
(* Texts are sequences of character codes, so prefix tests, lower() and    *)
(* substring tests are computed as Python computes them.                   *)
(***************************************************************************)
EXTENDS Integers, Sequences, FiniteSets, TLC

VARIABLES
    client,            \* self.client: "None" or "Handle" (an SSHClient object)
    transport,         \* the handle's transport: "none", "inactive", "unauth", "active"
    lock,              \* self.lock: the set of its holders ({} when free)
    stack,             \* per process, the call stack (last element = running frame)
    constructed,       \* SSHClientWrapper.__init__ has returned
    closed,            \* a close() call has completed
    all_services,      \* PM2MonitorApp.all_services
    filtered_services, \* PM2MonitorApp.filtered_services
    search_var,        \* the text of the search entry
    tree,              \* the Treeview's rows in display order
    log,               \* what update_treeview printed: the last run's deletes, inserts
                       \* and updates, and how many runs there were (up to MaxRuns)
    heading,           \* per column, the 'reverse' its heading command passes to sort_column
    auto_refresh_interval, \* PM2MonitorApp.auto_refresh_interval, in seconds
    timers,            \* the pending root.after callbacks: their delays in milliseconds
    fetching,          \* fetch_and_display threads started and not yet finished
    refresh_button,    \* the state of the refresh button: "normal" or "disabled"
    event,             \* what the last handler did: its name, the answer to its
                       \* askyesno, the command it handed to execute_command and how
                       \* that ended, its message box and the arguments of the box's
                       \* message, whether it called refresh_services, the delay it
                       \* passed to root.after
    log_text           \* the two Text widgets of the LogWindow, 'out' and 'error':
                       \* "none" before the window is opened, then what was appended

sessionVars == <<client, transport, lock, stack, constructed, closed>>
tableVars == <<all_services, filtered_services, search_var, tree, log, heading>>
appVars == <<auto_refresh_interval, timers, fetching, refresh_button, event>>
vars == <<client, transport, lock, stack, constructed, closed,
          all_services, filtered_services, search_var, tree, log, heading,
          auto_refresh_interval, timers, fetching, refresh_button, event, log_text>>

(***************************************************************************)
(* Bounds.                                                                 *)
(***************************************************************************)
NWorkers == 2

Workers == 1..NWorkers
Procs == 0..NWorkers

(***************************************************************************)
(* Texts.                                                                  *)
(***************************************************************************)
\* str.startswith(prefix)
StartsWith(s, prefix) ==
    /\ Len(s) >= Len(prefix)
    /\ SubSeq(s, 1, Len(prefix)) = prefix

\* 'pm2 ', the prefix execute_command tests
Pm2Prefix == <<112, 109, 50, 32>>

\* 'pm2 jlist'
PM2_LIST_COMMAND == <<112, 109, 50, 32, 106, 108, 105, 115, 116>>
\* 'free -m'
MEMORY_USAGE_COMMAND == <<102, 114, 101, 101, 32, 45, 109>>
\* "mpstat 1 1 | awk '/Average/ {print 100 - $12}'"
CPU_USAGE_COMMAND_MPSTAT ==
    <<109, 112, 115, 116, 97, 116, 32, 49, 32, 49, 32, 124, 32, 97, 119, 
      107, 32, 39, 47, 65, 118, 101, 114, 97, 103, 101, 47, 32, 123, 112, 
      114, 105, 110, 116, 32, 49, 48, 48, 32, 45, 32, 36, 49, 50, 125, 39>>
\* 'top -bn1 | grep -i "Cpu(s)"'
CPU_USAGE_COMMAND_TOP ==
    <<116, 111, 112, 32, 45, 98, 110, 49, 32, 124, 32, 103, 114, 101, 112, 
      32, 45, 105, 32, 34, 67, 112, 117, 40, 115, 41, 34>>
\* 'pm2x', a command a user may type into the terminal window
TerminalCommand == <<112, 109, 50, 120>>

\* the commands worker threads hand to execute_command
Commands == {PM2_LIST_COMMAND, MEMORY_USAGE_COMMAND, TerminalCommand}

\* ['pm2', 'mpstat', 'free', 'top', 'awk', 'grep', 'tail']
REQUIRED_COMMANDS ==
    << <<112, 109, 50>>, <<109, 112, 115, 116, 97, 116>>, <<102, 114, 101, 101>>,
       <<116, 111, 112>>, <<97, 119, 107>>, <<103, 114, 101, 112>>,
       <<116, 97, 105, 108>> >>

\* f'command -v {cmd}'
CheckCmd(cmd) == <<99, 111, 109, 109, 97, 110, 100, 32, 45, 118, 32>> \o cmd

\* what a remote command may write to stdout and to stderr: the names of
\* the texts, and per command the texts it may write
Outs == {"", "x"}
Errs == {"", "e"}

\* pm2 jlist: nothing, no JSON, JSON that is no list of services, an empty
\* list, one service, two services (the second without monit), a service
\* whose memory is null
ListOuts == {"", "x", "null", "[1]", "{}", "[]", "one", "two", "nomem"}
\* mpstat through awk: nothing, no number, '6.066'
MpstatOuts == {"", "x", "6.066"}
\* top through grep: nothing, no idle figure, the line of an older and of a
\* newer top
TopOuts == {"", "x", "98.3%id", "98.3 id"}
\* free -m: nothing, no 'Mem:' line, a 'Mem:' line, a 'Mem:' line cut short
FreeOuts == {"", "x", "Mem: 100 40", "Mem: 100"}

OutsOf(cmd) ==
    IF cmd = PM2_LIST_COMMAND THEN ListOuts
    ELSE IF cmd = CPU_USAGE_COMMAND_MPSTAT THEN MpstatOuts
    ELSE IF cmd = CPU_USAGE_COMMAND_TOP THEN TopOuts
    ELSE IF cmd = MEMORY_USAGE_COMMAND THEN FreeOuts
    ELSE Outs

\* the characters of a text, by its name
StdoutText(o) ==
    CASE o = "" -> <<>>
      [] o = "x" -> <<120>>
      [] o = "null" -> <<110, 117, 108, 108>>
      [] o = "[1]" -> <<91, 49, 93, 10>>
      [] o = "{}" -> <<123, 125>>
      [] o = "[]" -> <<91, 93, 10>>
      [] o = "one" ->
         \* [{"pm_id":1,"name":"web","pm2_env":{"version":"2","PORT":80},"monit":{"memory":131072,"cpu":5}}]
         <<91, 123, 34, 112, 109, 95, 105, 100, 34, 58, 49, 44, 34, 110, 97, 
           109, 101, 34, 58, 34, 119, 101, 98, 34, 44, 34, 112, 109, 50, 95, 
           101, 110, 118, 34, 58, 123, 34, 118, 101, 114, 115, 105, 111, 110, 
           34, 58, 34, 50, 34, 44, 34, 80, 79, 82, 84, 34, 58, 56, 48, 125, 44, 
           34, 109, 111, 110, 105, 116, 34, 58, 123, 34, 109, 101, 109, 111, 
           114, 121, 34, 58, 49, 51, 49, 48, 55, 50, 44, 34, 99, 112, 117, 34, 
           58, 53, 125, 125, 93, 10>>
      [] o = "two" ->
         \* [{"pm_id":3,"name":"api","monit":{"memory":393216}},{"pm_id":1,"pm2_env":{}}]
         <<91, 123, 34, 112, 109, 95, 105, 100, 34, 58, 51, 44, 34, 110, 97, 
           109, 101, 34, 58, 34, 97, 112, 105, 34, 44, 34, 109, 111, 110, 105, 
           116, 34, 58, 123, 34, 109, 101, 109, 111, 114, 121, 34, 58, 51, 57, 
           51, 50, 49, 54, 125, 125, 44, 123, 34, 112, 109, 95, 105, 100, 34, 
           58, 49, 44, 34, 112, 109, 50, 95, 101, 110, 118, 34, 58, 123, 125, 
           125, 93, 10>>
      [] o = "nomem" ->
         \* [{"pm_id":1,"monit":{"memory":null}}]
         <<91, 123, 34, 112, 109, 95, 105, 100, 34, 58, 49, 44, 34, 109, 111, 
           110, 105, 116, 34, 58, 123, 34, 109, 101, 109, 111, 114, 121, 34, 58, 
           110, 117, 108, 108, 125, 125, 93>>
      [] o = "6.066" -> <<54, 46, 48, 54, 54, 10>>
      [] o = "98.3%id" ->
         \* 'Cpu(s): 1.2%us, 98.3%id'
         <<67, 112, 117, 40, 115, 41, 58, 32, 49, 46, 50, 37, 117, 115, 44, 32, 
           57, 56, 46, 51, 37, 105, 100, 10>>
      [] o = "98.3 id" ->
         \* '%Cpu(s): 1.2 us, 98.3 id'
         <<37, 67, 112, 117, 40, 115, 41, 58, 32, 49, 46, 50, 32, 117, 115, 44, 
           32, 57, 56, 46, 51, 32, 105, 100, 10>>
      [] o = "Mem: 100 40" ->
         \* 'total used' and 'Mem: 100 40', two lines
         <<116, 111, 116, 97, 108, 32, 117, 115, 101, 100, 10, 77, 101, 109, 58, 
           32, 49, 48, 48, 32, 52, 48, 10>>
      [] o = "Mem: 100" -> <<77, 101, 109, 58, 32, 49, 48, 48, 10>>

\* the value execute_command returns: None, or the output text
None == [ok |-> FALSE, out |-> ""]
Some(o) == [ok |-> TRUE, out |-> o]

(***************************************************************************)
(* Frames and stacks.                                                      *)
(***************************************************************************)
\* execute_command(command), entered: about to take the lock.
\*   att: exec_command calls made; iss: commands that reached the host;
\*   live: the liveness check ("none", "active", "reconn", "failed");
\*   v1, v2: how the first and the second attempt ended ("none": not yet,
\*     "attr": the liveness test raised, "transport": exec_command raised,
\*     "stderr": refused for its stderr, "ok": output returned);
\*   out, err: what the last read brought;
\*   afterClose: the call began after a close() had completed.
ExecFrame(cmd, ac) ==
    [fn |-> "exec", pc |-> "lock", cmd |-> cmd, att |-> 0, iss |-> 0,
     live |-> "none", v1 |-> "none", v2 |-> "none", out |-> "", err |-> "",
     res |-> None, afterClose |-> ac]

\* connect(): i is the index of the next required command to probe
ConnectFrame == [fn |-> "connect", pc |-> "new", i |-> 1, missing |-> {}, warned |-> FALSE]

\* close()
CloseFrame == [fn |-> "close", pc |-> "test"]

\* an activation of LogWindow.fetch_logs(log_type, text_widget, log_path):
\* pc is "start" or "wait" (inside its execute_command)
FetchLogsFrame(log_type, log_path) ==
    [fn |-> "fetch_logs", pc |-> "start", log_type |-> log_type, log_path |-> log_path]

\* "N/A" for the memory usage, else used and total in thousandths
NoMemory == [ok |-> FALSE, used |-> 0, total |-> 0]

\* the commands of one fetch cycle, by the name of their stage
Stages == {"list", "mpstat", "top", "mem"}
StageCommand(stage) ==
    CASE stage = "list" -> PM2_LIST_COMMAND
      [] stage = "mpstat" -> CPU_USAGE_COMMAND_MPSTAT
      [] stage = "top" -> CPU_USAGE_COMMAND_TOP
      [] stage = "mem" -> MEMORY_USAGE_COMMAND

\* an activation of fetch_and_display with the get_pm2_services or
\* get_system_resources it is in.
\*   stage: the command it is at; pc: "call" (about to hand it to
\*     execute_command), "wait" (inside execute_command), "got" (it has the
\*     output), "returned" (fetch_and_display has returned), "raised" (an
\*     exception has ended the thread);
\*   issued: the stages whose command went to execute_command, in order;
\*   out: per stage what execute_command returned;
\*   services, box, raised: the records of get_pm2_services, its error box,
\*     the exception that left it;
\*   cpu_usage, memory_usage: the values of get_system_resources.
FetchFrame ==
    [fn |-> "fetch", stage |-> "list", pc |-> "call", issued |-> <<>>,
     out |-> [st \in Stages |-> None],
     services |-> <<>>, box |-> "none", raised |-> "none",
     cpu_usage |-> [ok |-> FALSE, val |-> 0], memory_usage |-> NoMemory]

Depth(p) == Len(stack[p])
Top(p) == stack[p][Len(stack[p])]
Running(p, fn, pc) == Depth(p) > 0 /\ Top(p).fn = fn /\ Top(p).pc = pc
SetTop(p, f) == [stack EXCEPT ![p] = [@ EXCEPT ![Len(@)] = f]]
\* replace the running frame by f and call g
Call(p, f, g) == [stack EXCEPT ![p] = Append([@ EXCEPT ![Len(@)] = f], g)]
Pop(s) == SubSeq(s, 1, Len(s) - 1)

(***************************************************************************)
(* SSHClientWrapper.                                                       *)
(***************************************************************************)
\* self.client is None or not self.client.get_transport().is_active(),
\* where it evaluates to True
NotActive == client = "None" \/ (client = "Handle" /\ transport = "inactive")

\* the same test where it raises AttributeError: the handle has no
\* transport, get_transport() returns None
NoTransport == client = "Handle" /\ transport = "none"

\* exec_command can reach the host
CanIssue == client = "Handle" /\ transport = "active"

\* a slip: the exemption of 'pm2 ' commands forgotten
ErrIsFailure_AnyCommand(cmd, err) == err # ""

\* error and not command.startswith('pm2 ')
ErrIsFailure(cmd, err) == err # "" /\ ~StartsWith(cmd, Pm2Prefix)

\* a slip: the command sent without waiting for the lock
LockFree_NoWait == TRUE

\* 'with self.lock:' can be entered
LockFree == lock = {}

\* a slip: the lock held around the first send only
LockAfterFailure_Released(p) == {}

\* the holder of the lock while the except handler of the first attempt runs
LockAfterFailure(p) == {p}

\* a slip: the handler of the second attempt retries again
AfterSecondFailure_Again == "retry"

\* where a failure of the second attempt leads: the inner except returns None
AfterSecondFailure == "done"

(***************************************************************************)
(* The table: PM2MonitorApp.all_services, filtered_services, the search    *)
(* entry and the Treeview.                                                 *)
(***************************************************************************)
MaxId == 2
MaxServices == 2

\* str.lower() on ASCII text
LowerChar(c) == IF c >= 65 /\ c <= 90 THEN c + 32 ELSE c
Lower(s) == [k \in 1..Len(s) |-> LowerChar(s[k])]

\* Python's 'sub in s' on texts
Contains(sub, s) ==
    \E k \in 0..(Len(s) - Len(sub)) : SubSeq(s, k + 1, k + Len(sub)) = sub

\* Python's s < t on texts: by the first differing character, a proper
\* prefix first
RECURSIVE TextLess(_, _)
TextLess(s, t) ==
    IF t = <<>> THEN FALSE
    ELSE IF s = <<>> THEN TRUE
    ELSE IF Head(s) # Head(t) THEN Head(s) < Head(t)
    ELSE TextLess(Tail(s), Tail(t))

\* translator.translate("search_placeholder"): 'Search'
PlaceholderText == <<83, 101, 97, 114, 99, 104>>

\* what the search entry may hold when a key is released: nothing, the
\* placeholder, 'Web'
Queries == {<<>>, PlaceholderText, <<87, 101, 98>>}

\* the names pm2 reports: 'web-api', 'worker', 'WEBhook', 'Api'
ServiceNames ==
    << <<119, 101, 98, 45, 97, 112, 105>>, <<119, 111, 114, 107, 101, 114>>,
       <<87, 69, 66, 104, 111, 111, 107>>, <<65, 112, 105>> >>
NameOf(id) == ServiceNames[((id - 1) % Len(ServiceNames)) + 1]

\* the CPU percentages pm2 reports: service 1 is idle or busy, the others idle
CpuVals(id) == IF id = 1 THEN {0, 50} ELSE {0}

\* the records get_pm2_services builds (line 273-284), as far as the table
\* reads them: 'ID', 'App Name', 'CPU (%)'
RecordsOf(id) == {[ID |-> id, name |-> NameOf(id), cpu |-> c] : c \in CpuVals(id)}
Records(maxId) == UNION {RecordsOf(id) : id \in 1..maxId}

\* the listings pm2 may report: at most n records with ids up to maxId,
\* the ids unique
ListingsUpTo(maxId, n) ==
    UNION {{s \in [1..m -> Records(maxId)] : \A a, b \in 1..m : a # b => s[a].ID # s[b].ID}
           : m \in 0..n}
Listings == ListingsUpTo(MaxId, MaxServices)

\* self.columns, line 878, as far as the records are modelled
Columns == {"ID", "App Name", "CPU (%)"}

\* a row of the Treeview: its item id and its values
Row(svc) == [iid |-> svc.ID, values |-> svc]

Ids(seq) == [k \in 1..Len(seq) |-> seq[k].ID]
RowIds(t) == [k \in 1..Len(t) |-> t[k].values.ID]
Range(seq) == {seq[k] : k \in 1..Len(seq)}

\* sequence seq without the elements that fail Keep(_)
RECURSIVE SelectRows(_, _)
SelectRows(t, gone) ==
    IF t = <<>> THEN <<>>
    ELSE IF Head(t).iid \in gone THEN SelectRows(Tail(t), gone)
    ELSE <<Head(t)>> \o SelectRows(Tail(t), gone)

\* update_treeview, line 1063: {values[0]: item for item in get_children()},
\* the item a key maps to being the last row with that first value
ExistingItems(t) ==
    [id \in Range(RowIds(t)) |->
        t[CHOOSE k \in 1..Len(t) :
            /\ t[k].values.ID = id
            /\ \A j \in (k + 1)..Len(t) : t[j].values.ID # id].iid]

\* update_treeview, line 1067-1094: the loop over filtered_services; a row
\* whose id is among the existing items is updated where it stands, any other
\* is inserted at the end under iid = app_id, and inserting an iid the tree
\* already holds raises TclError, which ends the loop
RECURSIVE Upsert(_, _, _, _, _)
Upsert(svcs, existing, t, lg, seen) ==
    IF svcs = <<>> THEN [tree |-> t, log |-> lg, new_ids |-> seen, raised |-> FALSE]
    ELSE LET svc == Head(svcs) IN
         IF svc.ID \in DOMAIN existing
         THEN Upsert(Tail(svcs), existing,
                     [k \in 1..Len(t) |->
                        IF t[k].iid = existing[svc.ID]
                        THEN [t[k] EXCEPT !.values = svc] ELSE t[k]],
                     [lg EXCEPT !.updated = Append(@, svc.ID)],
                     seen \cup {svc.ID})
         ELSE IF \E k \in 1..Len(t) : t[k].iid = svc.ID
         THEN [tree |-> t, log |-> lg, new_ids |-> seen \cup {svc.ID}, raised |-> TRUE]
         ELSE Upsert(Tail(svcs), existing, Append(t, Row(svc)),
                     [lg EXCEPT !.inserted = Append(@, svc.ID)],
                     seen \cup {svc.ID})

\* a slip: rows that left the listing are kept
DeletedIds_None(ids, new_ids) == <<>>

\* a slip: every existing row is deleted
DeletedIds_All(ids, new_ids) == ids

\* the deletes of line 1096-1099, in the order of the existing items
RECURSIVE DeletedIds(_, _)
DeletedIds(ids, new_ids) ==
    IF ids = <<>> THEN <<>>
    ELSE IF Head(ids) \in new_ids THEN DeletedIds(Tail(ids), new_ids)
    ELSE <<Head(ids)>> \o DeletedIds(Tail(ids), new_ids)

\* the runs of update_treeview are counted up to MaxRuns
MaxRuns == 2

EmptyLog == [deleted |-> <<>>, inserted |-> <<>>, updated |-> <<>>, runs |-> 0]

\* the printed output after one more run that printed lg
Printed(before, lg) ==
    [lg EXCEPT !.runs = IF before.runs < MaxRuns THEN before.runs + 1 ELSE MaxRuns]

\* a slip: the table cleared and filled again in the listing's order
UpdateTreeview_Rebuild(t, svcs) ==
    [tree |-> [k \in 1..Len(svcs) |-> Row(svcs[k])],
     log |-> [deleted |-> RowIds(t), inserted |-> Ids(svcs), updated |-> <<>>, runs |-> 0]]

\* update_treeview, line 1060-1103: the rows and the printed operations
\* that the tree t and the records svcs lead to
UpdateTreeview(t, svcs) ==
    LET existing == ExistingItems(t)
        up == Upsert(svcs, existing, t, EmptyLog, {})
        gone == DeletedIds(RowIds(t), up.new_ids)
    IN  IF up.raised
        THEN [tree |-> up.tree, log |-> up.log]
        ELSE [tree |-> SelectRows(up.tree, {existing[id] : id \in Range(gone)}),
              log |-> [up.log EXCEPT !.deleted = gone]]

\* filter_services, line 1048-1057: the records that pass the search text
RECURSIVE KeepMatching(_, _)
KeepMatching(svcs, query) ==
    IF svcs = <<>> THEN <<>>
    ELSE IF Contains(query, Lower(Head(svcs).name))
    THEN <<Head(svcs)>> \o KeepMatching(Tail(svcs), query)
    ELSE KeepMatching(Tail(svcs), query)

\* a slip: the search text is compared as typed
FilterServices_CaseSensitive(svcs, text) ==
    LET search_query == IF text = PlaceholderText THEN <<>> ELSE text
    IN  IF search_query = <<>> THEN svcs ELSE KeepMatching(svcs, search_query)

FilterServices(svcs, text) ==
    LET search_query == IF Lower(text) = Lower(PlaceholderText) THEN <<>> ELSE Lower(text)
    IN  IF search_query = <<>> THEN svcs ELSE KeepMatching(svcs, search_query)

\* sort_column, line 1107-1130: the sort key of a record for a column
KeyLess(col, a, b) ==
    IF col = "ID" THEN a.ID < b.ID
    ELSE IF col = "CPU (%)" THEN a.cpu < b.cpu
    ELSE TextLess(Lower(a.name), Lower(b.name))

\* sorted(..., key=..., reverse=reverse): stable in both directions
RECURSIVE InsertSorted(_, _, _, _)
InsertSorted(x, seq, col, reverse) ==
    IF seq = <<>> THEN <<x>>
    ELSE IF (IF reverse THEN KeyLess(col, Head(seq), x) ELSE KeyLess(col, x, Head(seq)))
    THEN <<x>> \o seq
    ELSE <<Head(seq)>> \o InsertSorted(x, Tail(seq), col, reverse)

RECURSIVE Sorted(_, _, _)
Sorted(seq, col, reverse) ==
    IF seq = <<>> THEN <<>>
    ELSE InsertSorted(seq[Len(seq)], Sorted(SubSeq(seq, 1, Len(seq) - 1), col, reverse),
                      col, reverse)

(***************************************************************************)
(* Reading numbers out of command output: get_system_resources.            *)
(***************************************************************************)
IsDigit(c) == c >= 48 /\ c <= 57
\* the characters str.strip(), str.split() and the pattern \s take for space
IsSpace(c) == c \in {9, 10, 11, 12, 13, 32}

\* str.strip()
RECURSIVE Strip(_)
Strip(s) ==
    IF s = <<>> THEN s
    ELSE IF IsSpace(s[1]) THEN Strip(Tail(s))
    ELSE IF IsSpace(s[Len(s)]) THEN Strip(SubSeq(s, 1, Len(s) - 1))
    ELSE s

AllDigits(s) == \A k \in 1..Len(s) : IsDigit(s[k])

RECURSIVE DigitsValue(_)
DigitsValue(s) ==
    IF s = <<>> THEN 0
    ELSE DigitsValue(SubSeq(s, 1, Len(s) - 1)) * 10 + (s[Len(s)] - 48)

\* numbers are kept in thousandths; Pad(n) scales a fraction of n digits
Pad(n) == CASE n = 0 -> 1000 [] n = 1 -> 100 [] n = 2 -> 10 [] OTHER -> 1

\* float(text): an optional sign, digits, at most one point (a text of the
\* model has at most three decimals and none of float's other spellings);
\* ok is FALSE where float raises ValueError
ParseFloat(text) ==
    LET t == Strip(text)
        signed == t # <<>> /\ t[1] \in {43, 45}
        u == IF signed THEN Tail(t) ELSE t
        dots == {k \in 1..Len(u) : u[k] = 46}
        dot == IF dots = {} THEN Len(u) + 1 ELSE CHOOSE k \in dots : \A j \in dots : k <= j
        whole == SubSeq(u, 1, dot - 1)
        frac == SubSeq(u, dot + 1, Len(u))
        ok == /\ Cardinality(dots) <= 1
              /\ AllDigits(whole)
              /\ AllDigits(frac)
              /\ Len(whole) + Len(frac) >= 1
              /\ Len(frac) <= 3
        magnitude == DigitsValue(whole) * 1000 + DigitsValue(frac) * Pad(Len(frac))
    IN  IF ok
        THEN [ok |-> TRUE, val |-> IF signed /\ t[1] = 45 THEN 0 - magnitude ELSE magnitude]
        ELSE [ok |-> FALSE, val |-> 0]

\* round(x, 2) of num/den, in hundredths: to the nearest, a tie to the even
\* one; the sign apart
Round2(num, den) ==
    LET n == IF num < 0 THEN 0 - num ELSE num
        q == ((n % den) * 100) \div den
        r == ((n % den) * 100) % den
        h == (n \div den) * 100 + (IF 2 * r > den \/ (2 * r = den /\ q % 2 = 1) THEN q + 1 ELSE q)
    IN  IF num < 0 THEN 0 - h ELSE h

\* the last index of the run of digits that starts at k (k - 1 if none)
RECURSIVE DigitsEnd(_, _)
DigitsEnd(s, k) == IF k <= Len(s) /\ IsDigit(s[k]) THEN DigitsEnd(s, k + 1) ELSE k - 1

RECURSIVE SpacesEnd(_, _)
SpacesEnd(s, k) == IF k <= Len(s) /\ IsSpace(s[k]) THEN SpacesEnd(s, k + 1) ELSE k - 1

\* the token that ends the pattern of line 309: '%id'
IdleToken == <<37, 105, 100>>

\* line 309: r'(\d+\.\d+)\s*%id' with re.IGNORECASE matches at index i;
\* the result is the end of group 1, or 0
IdleMatchAt(s, i) ==
    LET a == DigitsEnd(s, i)
        b == IF a >= i /\ a + 1 <= Len(s) /\ s[a + 1] = 46 THEN DigitsEnd(s, a + 2) ELSE 0
        c == SpacesEnd(s, b + 1)
    IN  IF /\ b >= a + 2
           /\ c + Len(IdleToken) <= Len(s)
           /\ Lower(SubSeq(s, c + 1, c + Len(IdleToken))) = IdleToken
        THEN b ELSE 0

\* re.search: group 1 of the leftmost match, or no match
SearchIdle(s) ==
    LET starts == {i \in 1..Len(s) : IdleMatchAt(s, i) > 0}
        i == CHOOSE k \in starts : \A j \in starts : k <= j
    IN  IF starts = {} THEN [ok |-> FALSE]
        ELSE [ok |-> TRUE, text |-> SubSeq(s, i, IdleMatchAt(s, i))]

\* str.split('\n')
RECURSIVE SplitLines(_)
SplitLines(s) ==
    LET breaks == {k \in 1..Len(s) : s[k] = 10}
        k == CHOOSE b \in breaks : \A j \in breaks : b <= j
    IN  IF breaks = {} THEN <<s>>
        ELSE <<SubSeq(s, 1, k - 1)>> \o SplitLines(SubSeq(s, k + 1, Len(s)))

\* str.split(): the runs of characters that are not space
RECURSIVE Fields(_)
Fields(s) ==
    LET t == Strip(s)
        gaps == {k \in 1..Len(t) : IsSpace(t[k])}
        k == CHOOSE g \in gaps : \A j \in gaps : g <= j
    IN  IF t = <<>> THEN <<>>
        ELSE IF gaps = {} THEN <<t>>
        ELSE <<SubSeq(t, 1, k - 1)>> \o Fields(SubSeq(t, k + 1, Len(t)))

\* "N/A"
Unavailable == [ok |-> FALSE, val |-> 0]
Percent(hundredths) == [ok |-> TRUE, val |-> hundredths]

\* line 296-302: the CPU usage from the output of mpstat, in hundredths
CpuFromMpstat(cpu_output) ==
    LET x == ParseFloat(cpu_output)
    IN  IF cpu_output # <<>> /\ x.ok
        THEN Percent(Round2(x.val, 1000)) ELSE Unavailable

\* a slip: the idle percentage itself is taken for the usage
CpuFromTop_Idle(cpu_output) ==
    LET m == SearchIdle(cpu_output)
        idle == ParseFloat(m.text)
    IN  IF cpu_output # <<>> /\ m.ok /\ idle.ok
        THEN Percent(Round2(idle.val, 1000)) ELSE Unavailable

\* line 307-316: the CPU usage from the output of top: 100 - idle
CpuFromTop(cpu_output) ==
    LET m == SearchIdle(cpu_output)
        idle == ParseFloat(m.text)
    IN  IF cpu_output # <<>> /\ m.ok /\ idle.ok
        THEN Percent(Round2(100000 - idle.val, 1000)) ELSE Unavailable

\* 'Mem:'
MemToken == <<77, 101, 109, 58>>

\* line 320-332: used and total from the 'Mem:' line of free -m, in
\* thousandths; "N/A" without such a line or when reading it raises
MemoryFromFree(mem_output) ==
    LET lines == SplitLines(mem_output)
        found == {k \in 1..Len(lines) : StartsWith(lines[k], MemToken)}
        mem_line == lines[CHOOSE k \in found : \A j \in found : k <= j]
        parts == Fields(mem_line)
        total == ParseFloat(parts[2])
        used == ParseFloat(parts[3])
    IN  IF mem_output = <<>> \/ found = {} THEN NoMemory
        ELSE IF Len(parts) < 3 THEN NoMemory
        ELSE IF ~total.ok \/ ~used.ok THEN NoMemory
        ELSE [ok |-> TRUE, used |-> used.val, total |-> total.val]

(***************************************************************************)
(* json.loads, as far as the listings of the model need it: null, whole    *)
(* numbers, strings without escapes, arrays and objects.  A value is a     *)
(* record: its type t, the number n, the string s, the elements (of an     *)
(* array) or the values (of an object) in items, the keys of an object in  *)
(* keys.                                                                   *)
(***************************************************************************)
JNull == [t |-> "null", n |-> 0, s |-> <<>>, items |-> <<>>, keys |-> <<>>]
JNum(n) == [JNull EXCEPT !.t = "num", !.n = n]
JStr(text) == [JNull EXCEPT !.t = "str", !.s = text]
JArr(items) == [JNull EXCEPT !.t = "arr", !.items = items]
JObj(keys, items) == [JNull EXCEPT !.t = "obj", !.keys = keys, !.items = items]

\* the decoder's result: a value and the index after it, or a failure
\* (json.JSONDecodeError)
Decoded(val, pos) == [ok |-> TRUE, val |-> val, pos |-> pos]
NotJson == [ok |-> FALSE, val |-> JNull, pos |-> 0]

\* the index of the first character at or after k that is not whitespace
RECURSIVE SkipSpace(_, _)
SkipSpace(s, k) == IF k <= Len(s) /\ s[k] \in {9, 10, 13, 32} THEN SkipSpace(s, k + 1) ELSE k

\* the index of the closing quote of the string whose text starts at k, or 0
RECURSIVE QuoteEnd(_, _)
QuoteEnd(s, k) ==
    IF k > Len(s) \/ s[k] = 92 \/ s[k] < 32 THEN 0
    ELSE IF s[k] = 34 THEN k
    ELSE QuoteEnd(s, k + 1)

RECURSIVE JsonValue(_, _)
RECURSIVE JsonItems(_, _, _)
RECURSIVE JsonMembers(_, _, _, _)

\* the elements of an array after '[' or ',': a value, then ',' or ']'
JsonItems(s, k, items) ==
    LET v == JsonValue(s, SkipSpace(s, k))
        j == SkipSpace(s, v.pos)
    IN  IF ~v.ok \/ j > Len(s) THEN NotJson
        ELSE IF s[j] = 44 THEN JsonItems(s, j + 1, Append(items, v.val))
        ELSE IF s[j] = 93 THEN Decoded(JArr(Append(items, v.val)), j + 1)
        ELSE NotJson

\* the members of an object after '{' or ',': "key" : value, then ',' or '}'
JsonMembers(s, k, keys, items) ==
    LET q == SkipSpace(s, k)
        e == IF q <= Len(s) /\ s[q] = 34 THEN QuoteEnd(s, q + 1) ELSE 0
        c == SkipSpace(s, e + 1)
        v == IF e > 0 /\ c <= Len(s) /\ s[c] = 58
             THEN JsonValue(s, SkipSpace(s, c + 1)) ELSE NotJson
        j == SkipSpace(s, v.pos)
    IN  IF ~v.ok \/ j > Len(s) THEN NotJson
        ELSE IF s[j] = 44
        THEN JsonMembers(s, j + 1, Append(keys, SubSeq(s, q + 1, e - 1)), Append(items, v.val))
        ELSE IF s[j] = 125
        THEN Decoded(JObj(Append(keys, SubSeq(s, q + 1, e - 1)), Append(items, v.val)), j + 1)
        ELSE NotJson

\* one value that starts at k
JsonValue(s, k) ==
    IF k > Len(s) THEN NotJson
    ELSE IF s[k] = 91
    THEN LET j == SkipSpace(s, k + 1)
         IN  IF j <= Len(s) /\ s[j] = 93 THEN Decoded(JArr(<<>>), j + 1)
             ELSE JsonItems(s, k + 1, <<>>)
    ELSE IF s[k] = 123
    THEN LET j == SkipSpace(s, k + 1)
         IN  IF j <= Len(s) /\ s[j] = 125 THEN Decoded(JObj(<<>>, <<>>), j + 1)
             ELSE JsonMembers(s, k + 1, <<>>, <<>>)
    ELSE IF s[k] = 34
    THEN LET e == QuoteEnd(s, k + 1)
         IN  IF e = 0 THEN NotJson ELSE Decoded(JStr(SubSeq(s, k + 1, e - 1)), e + 1)
    ELSE IF IsDigit(s[k])
    THEN LET e == DigitsEnd(s, k)
         IN  IF s[k] = 48 /\ e > k THEN NotJson
             ELSE Decoded(JNum(DigitsValue(SubSeq(s, k, e))), e + 1)
    ELSE IF k + 3 <= Len(s) /\ SubSeq(s, k, k + 3) = <<110, 117, 108, 108>>
    THEN Decoded(JNull, k + 4)
    ELSE NotJson

\* json.loads(text): one value, whitespace around it, nothing else
JsonLoads(text) ==
    LET v == JsonValue(text, SkipSpace(text, 1))
    IN  IF v.ok /\ SkipSpace(text, v.pos) = Len(text) + 1 THEN v ELSE NotJson

\* dict.get(key, default): the value of the last member with that key
JsonGet(obj, key, default) ==
    LET found == {k \in 1..Len(obj.keys) : obj.keys[k] = key}
    IN  IF found = {} THEN default
        ELSE obj.items[CHOOSE k \in found : \A j \in found : j <= k]

(***************************************************************************)
(* get_pm2_services: from the listing's text to the records.               *)
(***************************************************************************)
\* the text of what execute_command returned (None has none)
OutputText(output) == IF output.ok THEN StdoutText(output.out) ELSE <<>>

\* 'N/A'
NotAvailable == JStr(<<78, 47, 65>>)
EmptyDict == JObj(<<>>, <<>>)

\* 'for svc in services_json' (line 268): a list gives its elements, a dict
\* its keys, a string its characters; None and a number cannot be iterated
Iterable(v) == v.t \in {"arr", "obj", "str"}
Elements(v) ==
    CASE v.t = "arr" -> v.items
      [] v.t = "obj" -> [k \in 1..Len(v.keys) |-> JStr(v.keys[k])]
      [] OTHER -> [k \in 1..Len(v.s) |-> JStr(<<v.s[k]>>)]

\* svc.get('monit', {}) and svc.get('pm2_env', {})
Monit(svc) == JsonGet(svc, <<109, 111, 110, 105, 116>>, EmptyDict)
Pm2Env(svc) == JsonGet(svc, <<112, 109, 50, 95, 101, 110, 118>>, EmptyDict)
\* line 269
MemoryBytes(svc) == JsonGet(Monit(svc), <<109, 101, 109, 111, 114, 121>>, JNum(0))

\* what line 269-284 raise for one element: .get on something that is no
\* dict, the division of something that is no number
SvcRaises(svc) ==
    IF svc.t # "obj" \/ Monit(svc).t # "obj" THEN "AttributeError"
    ELSE IF MemoryBytes(svc).t # "num" THEN "TypeError"
    ELSE IF Pm2Env(svc).t # "obj" THEN "AttributeError"
    ELSE "none"

\* a slip: the MB as the whole part only
MemoryMb_Floor(memory_bytes) == (memory_bytes \div 1048576) * 100

\* line 270: round(memory_bytes / (1024 * 1024), 2), in hundredths
MemoryMb(memory_bytes) == Round2(memory_bytes, 1048576)

\* line 273-284: the record of one service (its uptime apart); ID, name,
\* version, status, cpu and port are the listing's values as they are
SvcRecord(svc) ==
    [ID |-> JsonGet(svc, <<112, 109, 95, 105, 100>>, JNull),
     name |-> JsonGet(svc, <<110, 97, 109, 101>>, JNull),
     version |-> JsonGet(Pm2Env(svc), <<118, 101, 114, 115, 105, 111, 110>>, NotAvailable),
     status |-> JsonGet(Pm2Env(svc), <<115, 116, 97, 116, 117, 115>>, JNull),
     cpu |-> JsonGet(Monit(svc), <<99, 112, 117>>, JNum(0)),
     memory |-> MemoryMb(MemoryBytes(svc).n),
     out_log_path |-> JsonGet(Pm2Env(svc), <<112, 109, 95, 111, 117, 116, 95, 108, 111, 103, 95, 112, 97, 116, 104>>, JStr(<<>>)),
     err_log_path |-> JsonGet(Pm2Env(svc), <<112, 109, 95, 101, 114, 114, 95, 108, 111, 103, 95, 112, 97, 116, 104>>, JStr(<<>>)),
     port |-> JsonGet(Pm2Env(svc), <<80, 79, 82, 84>>, NotAvailable)]

\* get_pm2_services, line 264-290, from the output of the listing command:
\* the records it returns, the error box it shows, the exception that leaves it
GetPm2Services(output) ==
    LET text == OutputText(output)
        loaded == JsonLoads(text)
        svcs == Elements(loaded.val)
        bad == {k \in 1..Len(svcs) : SvcRaises(svcs[k]) # "none"}
        quiet == [services |-> <<>>, box |-> "none", raised |-> "none"]
    IN  IF text = <<>> THEN quiet
        ELSE IF ~loaded.ok THEN [quiet EXCEPT !.box = "json_error"]
        ELSE IF ~Iterable(loaded.val) THEN [quiet EXCEPT !.raised = "TypeError"]
        ELSE IF bad # {}
        THEN [quiet EXCEPT !.raised = SvcRaises(svcs[CHOOSE k \in bad : \A j \in bad : k <= j])]
        ELSE [quiet EXCEPT !.services = [k \in 1..Len(svcs) |-> SvcRecord(svcs[k])]]

(***************************************************************************)
(* format_uptime and parse_uptime.  Times are whole milliseconds since the *)
(* epoch; the model's clock stays in the first days of it.                 *)
(***************************************************************************)
\* str(n) for n >= 0
RECURSIVE Decimal(_)
Decimal(n) == IF n < 10 THEN <<48 + n>> ELSE Decimal(n \div 10) \o <<48 + (n % 10)>>

\* 'not x' for a value of the listing: None, 0, '', [] and {} are false
Falsy(v) ==
    CASE v.t = "null" -> TRUE
      [] v.t = "num" -> v.n = 0
      [] v.t = "str" -> v.s = <<>>
      [] OTHER -> v.items = <<>>

\* 'N/A'
NA == <<78, 47, 65>>

\* line 349: the seconds that are left of the minutes
Seconds(remainder) == remainder % 60

\* line 347-350: f"{days}d {hours}h {minutes}m {seconds}s" of whole seconds
FormatSeconds(uptime_seconds) ==
    LET days == uptime_seconds \div 86400
        hours == (uptime_seconds % 86400) \div 3600
        minutes == ((uptime_seconds % 86400) % 3600) \div 60
        seconds == Seconds((uptime_seconds % 86400) % 3600)
    IN  Decimal(days) \o <<100, 32>> \o Decimal(hours) \o <<104, 32>> \o
        Decimal(minutes) \o <<109, 32>> \o Decimal(seconds) \o <<115>>

\* a slip: a start time after the current time is formatted like any other
FormatUptime_NoSkew(epoch_time, current_time) ==
    IF Falsy(epoch_time) \/ epoch_time.t # "num" THEN NA
    ELSE FormatSeconds((current_time - epoch_time.n) \div 1000)

\* format_uptime(epoch_time), line 339-352, with time.time() = current_time:
\* 'N/A' for a false start time, for one that cannot be divided (TypeError,
\* caught) and for one after the current time
FormatUptime(epoch_time, current_time) ==
    IF Falsy(epoch_time) \/ epoch_time.t # "num" THEN NA
    ELSE IF current_time - epoch_time.n < 0 THEN NA
    ELSE FormatSeconds((current_time - epoch_time.n) \div 1000)

\* int(text): digits with an optional sign, space around them allowed
ParseInt(text) ==
    LET t == Strip(text)
        signed == t # <<>> /\ t[1] \in {43, 45}
        u == IF signed THEN Tail(t) ELSE t
    IN  IF u # <<>> /\ AllDigits(u)
        THEN [ok |-> TRUE, val |-> IF signed /\ t[1] = 45 THEN 0 - DigitsValue(u) ELSE DigitsValue(u)]
        ELSE [ok |-> FALSE, val |-> 0]

\* s.split(c)[0] and s.split(c)[1] for a character c that s holds
SplitHead(s, c) ==
    SubSeq(s, 1, (CHOOSE k \in 1..Len(s) : s[k] = c /\ \A j \in 1..(k - 1) : s[j] # c) - 1)
SplitNext(s, c) ==
    LET k == CHOOSE i \in 1..Len(s) : s[i] = c /\ \A j \in 1..(i - 1) : s[j] # c
        rest == SubSeq(s, k + 1, Len(s))
    IN  IF \E i \in 1..Len(rest) : rest[i] = c THEN SplitHead(rest, c) ELSE rest

\* line 1141-1149: one unit of parse_uptime: the number before the unit's
\* letter and the text that is left
UptimeUnit(uptime_str, c) ==
    IF \E k \in 1..Len(uptime_str) : uptime_str[k] = c
    THEN [ok |-> ParseInt(SplitHead(uptime_str, c)).ok,
          val |-> ParseInt(SplitHead(uptime_str, c)).val,
          rest |-> SplitNext(uptime_str, c)]
    ELSE [ok |-> TRUE, val |-> 0, rest |-> uptime_str]

\* parse_uptime(uptime_str), line 1138-1155: the seconds of the text, 0
\* when reading it raises
ParseUptime(uptime_str) ==
    LET d == UptimeUnit(uptime_str, 100)
        h == UptimeUnit(d.rest, 104)
        m == UptimeUnit(h.rest, 109)
        sec == UptimeUnit(m.rest, 115)
    IN  IF d.ok /\ h.ok /\ m.ok /\ sec.ok
        THEN d.val * 86400 + h.val * 3600 + m.val * 60 + sec.val
        ELSE 0

(***************************************************************************)
(* The application: timer, refresh button, fetch threads.                  *)
(***************************************************************************)
MaxFetch == 3
MaxInterval == 2

\* the intervals the preferences window accepts (line 527-529: not negative)
Intervals == 0..MaxInterval
\* the intervals config.json may hold at startup (line 708)
StartIntervals == -1..MaxInterval

\* what a handler did: nothing yet
NoEvent ==
    [by |-> "none", confirm |-> "none", cmd |-> <<>>, res |-> "none",
     box |-> "none", args |-> {}, refresh |-> FALSE, after |-> 0]
Event(by) == [NoEvent EXCEPT !.by = by]

\* no LogWindow has been opened
NoLogWindow == [out |-> "none", error |-> "none"]

\* the paths a record gives for its logs ('Out Log Path', 'Error Log Path',
\* line 281-282): none (''), or 'o' for stdout and 'e' for stderr
LogPaths(log_type) == {<<>>, IF log_type = "out" THEN <<111>> ELSE <<101>>}

\* a slip: the last ten lines
TailCommand_Ten(log_path) ==
    <<116, 97, 105, 108, 32, 45, 110, 32, 49, 48, 32, 34>> \o log_path \o <<34>>

\* line 429: f'tail -n 100 "{log_path}"'
TailCommand(log_path) ==
    <<116, 97, 105, 108, 32, 45, 110, 32, 49, 48, 48, 32, 34>> \o log_path \o <<34>>

\* line 431-434: the text fetch_logs appends for the output of its command
LogText(output) == IF output.ok /\ output.out # "" THEN output.out ELSE "no_logs"

\* some execute_command has its result and is about to hand it to its
\* caller: a step of that thread alone, which the model takes at once
ReturnPending == \E p \in Procs : Running(p, "exec", "done")

\* SSHClientWrapper.__init__ has set its fields (line 166-171) and calls
\* connect(); the table is as setup_ui leaves it (line 828, 900, 947-948)
Init ==
    /\ client = "None"
    /\ transport = "none"
    /\ lock = {}
    /\ stack = [p \in Procs |-> IF p = 0 THEN <<ConnectFrame>> ELSE <<>>]
    /\ constructed = FALSE
    /\ closed = FALSE
    /\ all_services = <<>>
    /\ filtered_services = <<>>
    /\ search_var = PlaceholderText
    /\ tree = <<>>
    /\ log = EmptyLog
    /\ heading = [col \in Columns |-> FALSE]
    /\ auto_refresh_interval = 0
    /\ timers = <<>>
    /\ fetching = 0
    /\ refresh_button = "normal"
    /\ event = NoEvent
    /\ log_text = NoLogWindow

\* connect, line 177-178: a fresh SSHClient replaces self.client
ConnectNew(p) ==
    /\ Running(p, "connect", "new")
    /\ ~ReturnPending
    /\ client' = "Handle"
    /\ transport' = "none"
    /\ stack' = SetTop(p, [Top(p) EXCEPT !.pc = "conn"])
    /\ UNCHANGED <<lock, constructed, closed, tableVars, appVars, log_text>>

\* connect, line 179-196: the transport connect and its outcome.
\*   "ok": connected and authenticated, check_required_commands follows;
\*   "auth": AuthenticationException, the transport stays open, unauthenticated;
\*   "ssh": SSHException during negotiation, the transport is dead;
\*   "other": socket error or timeout, no transport was made.
\* With self.client cleared meanwhile by close(), self.client.connect raises
\* AttributeError, caught by 'except Exception'.
ConnectTransport(p) ==
    /\ Running(p, "connect", "conn")
    /\ ~ReturnPending
    /\ IF client = "None"
       THEN /\ stack' = SetTop(p, [Top(p) EXCEPT !.pc = "ret"])
            /\ UNCHANGED transport
       ELSE \E outcome \in {"ok", "auth", "ssh", "other"} :
            /\ transport' = CASE outcome = "ok" -> "active"
                              [] outcome = "auth" -> "unauth"
                              [] outcome = "ssh" -> "inactive"
                              [] OTHER -> "none"
            /\ stack' = SetTop(p, [Top(p) EXCEPT
                                     !.pc = IF outcome = "ok" THEN "probe" ELSE "ret"])
    /\ UNCHANGED <<client, lock, constructed, closed, tableVars, appVars, log_text>>

\* check_required_commands, line 200-202: the next probe, or line 205-208
\* after the last one: one warning if anything is missing
Probe(p) ==
    /\ Running(p, "connect", "probe")
    /\ ~ReturnPending
    /\ IF Top(p).i <= Len(REQUIRED_COMMANDS)
       THEN stack' = Call(p, Top(p),
                          ExecFrame(CheckCmd(REQUIRED_COMMANDS[Top(p).i]), closed))
       ELSE stack' = SetTop(p, [Top(p) EXCEPT !.pc = "ret",
                                              !.warned = Top(p).missing # {}])
    /\ UNCHANGED <<client, transport, lock, constructed, closed, tableVars, appVars, log_text>>

\* connect returns to its caller: __init__, or execute_command
ConnectReturn(p) ==
    /\ Running(p, "connect", "ret")
    /\ ~ReturnPending
    /\ stack' = [stack EXCEPT ![p] = Pop(@)]
    /\ constructed' = (constructed \/ (p = 0 /\ Depth(p) = 1))
    /\ UNCHANGED <<client, transport, lock, closed, tableVars, appVars, log_text>>

\* execute_command, line 211: with self.lock
Acquire(p) ==
    /\ Running(p, "exec", "lock")
    /\ ~ReturnPending
    /\ LockFree
    /\ lock' = {p}
    /\ stack' = SetTop(p, [Top(p) EXCEPT !.pc = "check1"])
    /\ UNCHANGED <<client, transport, constructed, closed, tableVars, appVars, log_text>>

\* execute_command, line 213-215: the liveness check; reconnect if needed
Check1(p) ==
    /\ Running(p, "exec", "check1")
    /\ ~ReturnPending
    /\ stack' =
         IF NotActive
         THEN Call(p, [Top(p) EXCEPT !.pc = "check2", !.live = "reconn"], ConnectFrame)
         ELSE IF NoTransport
         THEN SetTop(p, [Top(p) EXCEPT !.pc = "retry", !.v1 = "attr"])
         ELSE SetTop(p, [Top(p) EXCEPT !.pc = "check2", !.live = "active"])
    /\ UNCHANGED <<client, transport, lock, constructed, closed, tableVars, appVars, log_text>>

\* execute_command, line 216-218: still not active: return None
Check2(p) ==
    /\ Running(p, "exec", "check2")
    /\ ~ReturnPending
    /\ LET f == Top(p)
           lv == IF f.live = "reconn" /\ ~CanIssue /\ transport # "unauth"
                 THEN "failed" ELSE f.live
       IN  IF NotActive
           THEN /\ stack' = SetTop(p, [f EXCEPT !.pc = "done", !.live = lv, !.res = None])
                /\ lock' = {}
           ELSE IF NoTransport
           THEN /\ stack' = SetTop(p, [f EXCEPT !.pc = "retry", !.live = lv, !.v1 = "attr"])
                /\ lock' = LockAfterFailure(p)
           ELSE /\ stack' = SetTop(p, [f EXCEPT !.pc = "exec1"])
                /\ UNCHANGED lock
    /\ UNCHANGED <<client, transport, constructed, closed, tableVars, appVars, log_text>>

\* execute_command, line 220 and line 236: self.client.exec_command(command).
\* It raises when there is no handle, no live authenticated transport, or
\* the transport fails while sending; otherwise the command reaches the host.
Issue(p) ==
    /\ Depth(p) > 0 /\ Top(p).fn = "exec" /\ Top(p).pc \in {"exec1", "exec2"}
    /\ ~ReturnPending
    /\ \E sent \in BOOLEAN :
       LET f == [Top(p) EXCEPT !.att = @ + 1]
           first == f.pc = "exec1"
       IN  /\ sent => CanIssue
           /\ IF sent
              THEN /\ stack' = SetTop(p, [f EXCEPT !.iss = @ + 1,
                                            !.pc = IF first THEN "read1" ELSE "read2"])
                   /\ UNCHANGED lock
              ELSE IF first
              THEN /\ stack' = SetTop(p, [f EXCEPT !.pc = "retry", !.v1 = "transport"])
                   /\ lock' = LockAfterFailure(p)
              ELSE /\ stack' = SetTop(p, [f EXCEPT !.pc = AfterSecondFailure,
                                            !.v2 = "transport", !.res = None])
                   /\ lock' = IF AfterSecondFailure = "done" THEN {} ELSE lock
    /\ UNCHANGED <<client, transport, constructed, closed, tableVars, appVars, log_text>>

\* execute_command, line 221-227 and line 237-243: read stdout and stderr,
\* apply the error-channel policy, return the output
Read(p) ==
    /\ Depth(p) > 0 /\ Top(p).fn = "exec" /\ Top(p).pc \in {"read1", "read2"}
    /\ ~ReturnPending
    /\ \E o \in OutsOf(Top(p).cmd), e \in Errs :
       LET f == [Top(p) EXCEPT !.out = o, !.err = e]
           first == f.pc = "read1"
       IN  IF ErrIsFailure(f.cmd, e)
           THEN IF first
                THEN /\ stack' = SetTop(p, [f EXCEPT !.pc = "retry", !.v1 = "stderr"])
                     /\ lock' = LockAfterFailure(p)
                ELSE /\ stack' = SetTop(p, [f EXCEPT !.pc = AfterSecondFailure,
                                              !.v2 = "stderr", !.res = None])
                     /\ lock' = IF AfterSecondFailure = "done" THEN {} ELSE lock
           ELSE /\ stack' = SetTop(p, [IF first THEN [f EXCEPT !.v1 = "ok"]
                                                 ELSE [f EXCEPT !.v2 = "ok"]
                                        EXCEPT !.pc = "done", !.res = Some(o)])
                /\ lock' = {}
    /\ UNCHANGED <<client, transport, constructed, closed, tableVars, appVars, log_text>>

\* execute_command, line 228-232: the except handler reconnects
Retry(p) ==
    /\ Running(p, "exec", "retry")
    /\ ~ReturnPending
    /\ stack' = Call(p, [Top(p) EXCEPT !.pc = "check3"], ConnectFrame)
    /\ UNCHANGED <<client, transport, lock, constructed, closed, tableVars, appVars, log_text>>

\* execute_command, line 233-235, and 244-247 when the test itself raises
Check3(p) ==
    /\ Running(p, "exec", "check3")
    /\ ~ReturnPending
    /\ IF NotActive \/ NoTransport
       THEN /\ stack' = SetTop(p, [Top(p) EXCEPT !.pc = "done", !.v2 = "attr", !.res = None])
            /\ lock' = {}
       ELSE /\ stack' = SetTop(p, [Top(p) EXCEPT !.pc = "exec2"])
            /\ UNCHANGED lock
    /\ UNCHANGED <<client, transport, constructed, closed, tableVars, appVars, log_text>>

\* execute_command returns: to check_required_commands (line 202-204), which
\* notes the command as missing if there is no output, or to a worker
ExecReturn(p) ==
    /\ Running(p, "exec", "done")
    /\ LET r == Top(p).res
           rest == Pop(stack[p])
       IN  IF rest # <<>> /\ rest[Len(rest)].fn = "fetch_logs"
           THEN \* fetch_logs, line 431-434: append_text, and the thread ends
                /\ log_text' = [log_text EXCEPT ![rest[Len(rest)].log_type] = LogText(r)]
                /\ stack' = [stack EXCEPT ![p] = <<>>]
           ELSE IF rest # <<>> /\ rest[Len(rest)].fn = "fetch"
           THEN \* line 263, 295, 306, 318: the output is bound
                /\ stack' = [stack EXCEPT ![p] =
                       [rest EXCEPT ![Len(rest)] =
                          [@ EXCEPT !.pc = "got", !.out[@.stage] = r]]]
                /\ UNCHANGED log_text
           ELSE /\ stack' = [stack EXCEPT ![p] =
                       IF rest = <<>> THEN rest
                       ELSE [rest EXCEPT ![Len(rest)] =
                               [@ EXCEPT !.i = @ + 1,
                                         !.missing = IF ~r.ok \/ r.out = ""
                                                     THEN @ \cup {rest[Len(rest)].i} ELSE @]]]
                /\ UNCHANGED log_text
    /\ UNCHANGED <<client, transport, lock, constructed, closed, tableVars, appVars>>

\* a worker thread (poll cycle, control action, log tail, terminal command)
\* calls execute_command
WorkerCall(p) ==
    /\ p \in Workers
    /\ ~ReturnPending
    /\ constructed
    /\ stack[p] = <<>>
    /\ \E cmd \in Commands :
         stack' = [stack EXCEPT ![p] = <<ExecFrame(cmd, closed)>>]
    /\ UNCHANGED <<client, transport, lock, constructed, closed, tableVars, appVars, log_text>>

\* on_closing, line 1201: the UI thread calls close()
CloseCall ==
    /\ constructed
    /\ ~ReturnPending
    /\ stack[0] = <<>>
    /\ stack' = [stack EXCEPT ![0] = <<CloseFrame>>]
    /\ UNCHANGED <<client, transport, lock, constructed, closed, tableVars, appVars, log_text>>

\* a slip: close() tears down without looking at the handle
CloseTest_NoGuard ==
    /\ Running(0, "close", "test")
    /\ ~ReturnPending
    /\ transport' = "none"
    /\ stack' = SetTop(0, [Top(0) EXCEPT !.pc = "clear"])
    /\ UNCHANGED <<client, lock, constructed, closed, tableVars, appVars, log_text>>

\* close, line 250-251: if self.client: self.client.close()
CloseTest ==
    /\ Running(0, "close", "test")
    /\ ~ReturnPending
    /\ IF client # "None"
       THEN /\ transport' = "none"
            /\ stack' = SetTop(0, [Top(0) EXCEPT !.pc = "clear"])
            /\ UNCHANGED closed
       ELSE /\ stack' = [stack EXCEPT ![0] = <<>>]
            /\ closed' = TRUE
            /\ UNCHANGED transport
    /\ UNCHANGED <<client, lock, constructed, tableVars, appVars, log_text>>

\* close, line 252: self.client = None
CloseClear ==
    /\ Running(0, "close", "clear")
    /\ ~ReturnPending
    /\ client' = "None"
    /\ transport' = "none"
    /\ stack' = [stack EXCEPT ![0] = <<>>]
    /\ closed' = TRUE
    /\ UNCHANGED <<lock, constructed, tableVars, appVars, log_text>>

\* the network or the host: a live transport dies (is_active() turns False)
Drop ==
    /\ client = "Handle"
    /\ ~ReturnPending
    /\ transport \in {"active", "unauth"}
    /\ transport' = "inactive"
    /\ UNCHANGED <<client, lock, stack, constructed, closed, tableVars, appVars, log_text>>

Step(p) ==
    \/ ConnectNew(p)
    \/ ConnectTransport(p)
    \/ Probe(p)
    \/ ConnectReturn(p)
    \/ Acquire(p)
    \/ Check1(p)
    \/ Check2(p)
    \/ Issue(p)
    \/ Read(p)
    \/ Retry(p)
    \/ Check3(p)
    \/ ExecReturn(p)
    \/ WorkerCall(p)

Next ==
    \/ \E p \in Procs : Step(p)
    \/ CloseCall
    \/ CloseTest
    \/ CloseClear
    \/ Drop

Spec == Init /\ [][Next]_vars

(***************************************************************************)
(* The log window: two fetch_logs threads on the connected session.        *)
(***************************************************************************)
\* LogWindow.__init__, line 381-425: the two Text widgets are created and
\* the two threads are started, one per log
ViewLogs ==
    /\ constructed
    /\ ~ReturnPending
    /\ log_text = NoLogWindow
    /\ stack[1] = <<>>
    /\ stack[2] = <<>>
    /\ log_text' = [out |-> "empty", error |-> "empty"]
    /\ \E out_log_path \in LogPaths("out"), error_log_path \in LogPaths("error") :
          stack' = [stack EXCEPT ![1] = <<FetchLogsFrame("out", out_log_path)>>,
                                 ![2] = <<FetchLogsFrame("error", error_log_path)>>]
    /\ UNCHANGED <<client, transport, lock, constructed, closed, tableVars, appVars>>

\* fetch_logs, line 427-436: with a path the tail command goes to
\* execute_command, without one the 'log not found' text is appended
FetchLogs(p) ==
    /\ Running(p, "fetch_logs", "start")
    /\ ~ReturnPending
    /\ IF Top(p).log_path # <<>>
       THEN /\ stack' = Call(p, [Top(p) EXCEPT !.pc = "wait"],
                             ExecFrame(TailCommand(Top(p).log_path), closed))
            /\ UNCHANGED log_text
       ELSE /\ log_text' = [log_text EXCEPT ![Top(p).log_type] = "log_not_found"]
            /\ stack' = [stack EXCEPT ![p] = <<>>]
    /\ UNCHANGED <<client, transport, lock, constructed, closed, tableVars, appVars>>

\* the session connected and idle: SSHClientWrapper.__init__ has returned
\* from a successful connect()
LogInit ==
    /\ client = "Handle"
    /\ transport = "active"
    /\ lock = {}
    /\ stack = [p \in Procs |-> <<>>]
    /\ constructed = TRUE
    /\ closed = FALSE
    /\ all_services = <<>>
    /\ filtered_services = <<>>
    /\ search_var = PlaceholderText
    /\ tree = <<>>
    /\ log = EmptyLog
    /\ heading = [col \in Columns |-> FALSE]
    /\ auto_refresh_interval = 0
    /\ timers = <<>>
    /\ fetching = 0
    /\ refresh_button = "normal"
    /\ event = NoEvent
    /\ log_text = NoLogWindow

LogStep(p) ==
    \/ FetchLogs(p)
    \/ ConnectNew(p)
    \/ ConnectTransport(p)
    \/ Probe(p)
    \/ ConnectReturn(p)
    \/ Acquire(p)
    \/ Check1(p)
    \/ Check2(p)
    \/ Issue(p)
    \/ Read(p)
    \/ Retry(p)
    \/ Check3(p)
    \/ ExecReturn(p)

LogNext ==
    \/ ViewLogs
    \/ \E p \in Workers : LogStep(p)
    \/ Drop

LogSpec == LogInit /\ [][LogNext]_vars

(***************************************************************************)
(* One fetch cycle on the session: fetch_and_display in its thread, with   *)
(* get_pm2_services and get_system_resources.                              *)
(***************************************************************************)
\* line 263, 295, 306, 318: the command of the stage goes to execute_command
PollCall(p) ==
    /\ Running(p, "fetch", "call")
    /\ ~ReturnPending
    /\ stack' = Call(p, [Top(p) EXCEPT !.pc = "wait", !.issued = Append(@, Top(p).stage)],
                     ExecFrame(StageCommand(Top(p).stage), closed))
    /\ UNCHANGED <<client, transport, lock, constructed, closed, tableVars, appVars, log_text>>

\* get_pm2_services after its command, line 264-290: the records, or the
\* exception that nothing catches and that ends the thread
PollListed(p) ==
    /\ Running(p, "fetch", "got") /\ Top(p).stage = "list"
    /\ ~ReturnPending
    /\ LET f == Top(p)
           got == GetPm2Services(f.out["list"])
       IN  IF got.raised # "none"
           THEN /\ stack' = SetTop(p, [f EXCEPT !.pc = "raised", !.raised = got.raised])
                /\ fetching' = fetching - 1
           ELSE /\ stack' = SetTop(p, [f EXCEPT !.pc = "call", !.stage = "mpstat",
                                                 !.services = got.services, !.box = got.box])
                /\ UNCHANGED fetching
    /\ UNCHANGED <<client, transport, lock, constructed, closed, tableVars,
                   auto_refresh_interval, timers, refresh_button, event, log_text>>

\* get_system_resources after mpstat, line 296-304, and after top, line 307-316
PollCpu(p) ==
    /\ Running(p, "fetch", "got") /\ Top(p).stage \in {"mpstat", "top"}
    /\ ~ReturnPending
    /\ LET f == Top(p)
           cpu_usage == IF f.stage = "mpstat"
                        THEN CpuFromMpstat(OutputText(f.out["mpstat"]))
                        ELSE CpuFromTop(OutputText(f.out["top"]))
       IN  stack' = SetTop(p, [f EXCEPT !.pc = "call", !.cpu_usage = cpu_usage,
                                        !.stage = IF f.stage = "mpstat" /\ ~cpu_usage.ok
                                                  THEN "top" ELSE "mem"])
    /\ UNCHANGED <<client, transport, lock, constructed, closed, tableVars, appVars, log_text>>

\* get_system_resources after free, line 319-337, then fetch_and_display,
\* line 1037-1045: the records are taken over, filter_services runs, the
\* button is enabled again
PollDisplay(p) ==
    /\ Running(p, "fetch", "got") /\ Top(p).stage = "mem"
    /\ ~ReturnPending
    /\ LET f == Top(p)
           filtered == FilterServices(f.services, search_var)
           shown == UpdateTreeview(tree, filtered)
       IN  /\ stack' = SetTop(p, [f EXCEPT !.pc = "returned",
                                           !.memory_usage = MemoryFromFree(OutputText(f.out["mem"]))])
           /\ all_services' = f.services
           /\ filtered_services' = filtered
           /\ tree' = shown.tree
           /\ log' = Printed(log, shown.log)
    /\ fetching' = fetching - 1
    /\ refresh_button' = "normal"
    /\ event' = Event("fetch_and_display")
    /\ UNCHANGED <<client, transport, lock, constructed, closed, search_var, heading,
                   auto_refresh_interval, timers, log_text>>

\* initialize_application has returned on a connected session (line 748):
\* its refresh_services has started the first fetch cycle
PollInit ==
    /\ client = "Handle"
    /\ transport = "active"
    /\ lock = {}
    /\ stack = [p \in Procs |-> IF p = 1 THEN <<FetchFrame>> ELSE <<>>]
    /\ constructed = TRUE
    /\ closed = FALSE
    /\ all_services = <<>>
    /\ filtered_services = <<>>
    /\ search_var = PlaceholderText
    /\ tree = <<>>
    /\ log = EmptyLog
    /\ heading = [col \in Columns |-> FALSE]
    /\ auto_refresh_interval = 0
    /\ timers = <<>>
    /\ fetching = 1
    /\ refresh_button = "disabled"
    /\ event = [Event("initialize_application") EXCEPT !.refresh = TRUE]
    /\ log_text = NoLogWindow

\* what an earlier fetch cycle left in the table: one service, or two
ShownListings == {GetPm2Services(Some(o)).services : o \in {"one", "two"}}

\* a later fetch cycle: refresh_services has started it on a connected
\* session whose table shows the listing of the cycle before
RepollInit ==
    /\ client = "Handle"
    /\ transport = "active"
    /\ lock = {}
    /\ stack = [p \in Procs |-> IF p = 1 THEN <<FetchFrame>> ELSE <<>>]
    /\ constructed = TRUE
    /\ closed = FALSE
    /\ all_services \in ShownListings
    /\ filtered_services = all_services
    /\ search_var = PlaceholderText
    /\ tree = [k \in 1..Len(all_services) |-> Row(all_services[k])]
    /\ log = EmptyLog
    /\ heading = [col \in Columns |-> FALSE]
    /\ auto_refresh_interval = 0
    /\ timers = <<>>
    /\ fetching = 1
    /\ refresh_button = "disabled"
    /\ event = [Event("refresh_button") EXCEPT !.refresh = TRUE]
    /\ log_text = NoLogWindow

PollStep(p) ==
    \/ PollCall(p)
    \/ PollListed(p)
    \/ PollCpu(p)
    \/ PollDisplay(p)
    \/ ConnectNew(p)
    \/ ConnectTransport(p)
    \/ Probe(p)
    \/ ConnectReturn(p)
    \/ Acquire(p)
    \/ Check1(p)
    \/ Check2(p)
    \/ Issue(p)
    \/ Read(p)
    \/ Retry(p)
    \/ Check3(p)
    \/ ExecReturn(p)

\* the steps of the fetch thread; the transport fails only where
\* exec_command or connect say so
PollNext == \E p \in Workers : PollStep(p)

PollSpec == PollInit /\ [][PollNext]_vars

RepollSpec == RepollInit /\ [][PollNext]_vars

(***************************************************************************)
(* format_uptime on its own: any start time of a listing, any clock.       *)
(***************************************************************************)
\* pm_uptime as a listing may hold it: absent (None), numbers, strings
StartTimes ==
    {JNull, JNum(0), JNum(1), JNum(500), JNum(1000), JNum(1999), JNum(60000),
     JNum(86400000), JNum(90061000), JNum(0 - 1000), JStr(<<>>), JStr(<<120>>)}

\* time.time(), in milliseconds
Nows ==
    {0, 1, 999, 1000, 2000, 59999, 60000, 3600000, 3661000, 86399999,
     86400000, 90061500, 172800000}

\* get_pm2_services, line 272 and 280: format_uptime(pm_uptime) is called
CallFormatUptime ==
    \E epoch_time \in StartTimes, current_time \in Nows :
        /\ event' = [Event("format_uptime") EXCEPT
                        !.args = [epoch_time |-> epoch_time, current_time |-> current_time],
                        !.res = FormatUptime(epoch_time, current_time)]
        /\ UNCHANGED <<sessionVars, tableVars, auto_refresh_interval, timers,
                       fetching, refresh_button, log_text>>

UptimeSpec == Init /\ [][CallFormatUptime]_vars

(***************************************************************************)
(* sort_column on the records that get_pm2_services makes: the fields hold *)
(* the listing's values (numbers, strings, None), the memory is a float in *)
(* hundredths, the uptime a text of format_uptime.                         *)
(***************************************************************************)
SortMaxId == 2
SortMaxServices == 2

\* the columns of line 878 that are sorted by a number (the others are
\* sorted by their text, line 1126-1130)
SortColumns == {"ID", "PORT", "CPU (%)", "Memory (MB)", "Uptime"}

\* the field of a record that a column shows
Field(svc, col) ==
    CASE col = "ID" -> svc.ID
      [] col = "PORT" -> svc.port
      [] col = "CPU (%)" -> svc.cpu
      [] col = "Memory (MB)" -> svc.memory
      [] OTHER -> svc.uptime

\* line 1109 and 1115: float(x) or int(x) if x is an int, a float or a str
\* other than 'N/A', else -1; in thousandths; raised where float or int
\* raises ValueError
NumberKey(x, whole) ==
    IF x.t = "num" THEN [raised |-> FALSE, num |-> x.n * 1000]
    ELSE IF x.t = "str" /\ x.s # NA
    THEN LET v == IF whole THEN ParseInt(x.s) ELSE ParseFloat(x.s)
         IN  [raised |-> ~v.ok, num |-> IF whole THEN v.val * 1000 ELSE v.val]
    ELSE [raised |-> FALSE, num |-> 0 - 1000]

\* a slip: the uptime is compared by its hours, minutes and seconds only
ParseUptime_NoDays(uptime_str) == ParseUptime(uptime_str) % 86400

\* line 1122: the key of the Uptime column
UptimeKey(uptime_str) == ParseUptime(uptime_str)

\* line 1107-1124: the key that sort_column gives a record in a column
SortKey(col, svc) ==
    CASE col \in {"PORT", "CPU (%)"} -> NumberKey(Field(svc, col), FALSE)
      [] col = "Memory (MB)" -> [raised |-> FALSE, num |-> svc.memory * 10]
      [] col = "ID" -> NumberKey(svc.ID, TRUE)
      [] OTHER -> [raised |-> FALSE, num |-> UptimeKey(svc.uptime)]

\* key a < key b
SortKeyLess(a, b) == a.num < b.num

\* sorted(..., key=..., reverse=reverse): stable in both directions
RECURSIVE InsertByKey(_, _, _, _)
InsertByKey(x, seq, col, reverse) ==
    IF seq = <<>> THEN <<x>>
    ELSE IF (IF reverse THEN SortKeyLess(SortKey(col, Head(seq)), SortKey(col, x))
                        ELSE SortKeyLess(SortKey(col, x), SortKey(col, Head(seq))))
    THEN <<x>> \o seq
    ELSE <<Head(seq)>> \o InsertByKey(x, Tail(seq), col, reverse)

RECURSIVE SortedByKey(_, _, _)
SortedByKey(seq, col, reverse) ==
    IF seq = <<>> THEN <<>>
    ELSE InsertByKey(seq[Len(seq)], SortedByKey(SubSeq(seq, 1, Len(seq) - 1), col, reverse),
                     col, reverse)

\* the PORT and the uptime a service may come with: 80 after a day, '3000'
\* one second short of a day, no PORT ('N/A') and no uptime, a socket's
\* name ('sock') after 90061 seconds
SortCases ==
    {[port |-> JNum(80), uptime |-> FormatSeconds(86400)],
     [port |-> JStr(<<51, 48, 48, 48>>), uptime |-> FormatSeconds(86399)],
     [port |-> JStr(NA), uptime |-> NA],
     [port |-> JStr(<<115, 111, 99, 107>>), uptime |-> FormatSeconds(90061)]}

\* the records of get_pm2_services for the service with pm_id = id
SortRecordsOf(id) ==
    {[ID |-> JNum(id), name |-> JStr(NameOf(id)), cpu |-> JNum(IF id = 1 THEN 5 ELSE 0),
      memory |-> IF id = 1 THEN 12 ELSE 38, port |-> c.port, uptime |-> c.uptime]
        : c \in SortCases}

SortListings ==
    UNION {{l \in [1..m -> UNION {SortRecordsOf(id) : id \in 1..SortMaxId}] :
               \A a, b \in 1..m : a # b => l[a].ID # l[b].ID}
           : m \in 0..SortMaxServices}

\* a fetch cycle has shown its listing (line 1038-1039); the headings are as
\* setup_ui made them (line 895-901)
SortInit ==
    /\ client = "Handle"
    /\ transport = "active"
    /\ lock = {}
    /\ stack = [p \in Procs |-> <<>>]
    /\ constructed = TRUE
    /\ closed = FALSE
    /\ all_services \in SortListings
    /\ filtered_services = all_services
    /\ search_var = PlaceholderText
    /\ tree = [k \in 1..Len(all_services) |-> Row(all_services[k])]
    /\ log = EmptyLog
    /\ heading = [col \in SortColumns |-> FALSE]
    /\ auto_refresh_interval = 0
    /\ timers = <<>>
    /\ fetching = 0
    /\ refresh_button = "normal"
    /\ event = NoEvent
    /\ log_text = NoLogWindow

\* a slip: the heading keeps the direction it had
NextReverse_Same(reverse) == reverse

\* line 1133: the direction the heading's command passes next time
NextReverse(reverse) == ~reverse

\* a click on a column heading: sort_column(col, reverse), line 1105-1136;
\* when a key raises, the error box is all that happens
SortByColumn ==
    \E col \in SortColumns :
        LET reverse == heading[col]
            sorted_data == SortedByKey(filtered_services, col, reverse)
            shown == UpdateTreeview(tree, sorted_data)
            called == [Event("sort_column") EXCEPT !.args = [col |-> col]]
        IN  IF \E k \in 1..Len(filtered_services) : SortKey(col, filtered_services[k]).raised
            THEN /\ event' = [called EXCEPT !.box = "showerror"]
                 /\ UNCHANGED <<tableVars, sessionVars, log_text>>
                 /\ UNCHANGED <<auto_refresh_interval, timers, fetching, refresh_button>>
            ELSE /\ filtered_services' = sorted_data
                 /\ tree' = shown.tree
                 /\ log' = Printed(log, shown.log)
                 /\ heading' = [heading EXCEPT ![col] = NextReverse(reverse)]
                 /\ event' = called
                 /\ UNCHANGED <<all_services, search_var, sessionVars, log_text>>
                 /\ UNCHANGED <<auto_refresh_interval, timers, fetching, refresh_button>>

SortSpec == SortInit /\ [][SortByColumn]_vars

(***************************************************************************)
(* The table's handlers, each run to its end on the UI thread.             *)
(***************************************************************************)
\* refresh_services, line 1030-1032: the button is disabled and a
\* fetch_and_display thread is started
RefreshServices ==
    /\ fetching < MaxFetch
    /\ refresh_button' = "disabled"
    /\ fetching' = fetching + 1

\* a click on the refresh button (line 935), which a disabled button ignores
RefreshButton ==
    /\ refresh_button = "normal"
    /\ RefreshServices
    /\ event' = [Event("refresh_button") EXCEPT !.refresh = TRUE]
    /\ UNCHANGED <<auto_refresh_interval, timers, tableVars, sessionVars, log_text>>

\* fetch_and_display, line 1034-1045: a thread's listing has arrived (the
\* empty listing when the command failed), filter_services runs and the
\* button is enabled again
FetchAndDisplay(listings) ==
    /\ fetching > 0
    /\ \E services \in listings :
        LET filtered == FilterServices(services, search_var)
            shown == UpdateTreeview(tree, filtered)
        IN  /\ all_services' = services
            /\ filtered_services' = filtered
            /\ tree' = shown.tree
            /\ log' = Printed(log, shown.log)
    /\ fetching' = fetching - 1
    /\ refresh_button' = "normal"
    /\ event' = Event("fetch_and_display")
    /\ UNCHANGED <<search_var, heading, auto_refresh_interval, timers, sessionVars, log_text>>

PollResult == FetchAndDisplay(Listings)

\* line 838: a key is released in the search entry: filter_services
KeyRelease ==
    \E text \in Queries :
        LET filtered == FilterServices(all_services, text)
            shown == UpdateTreeview(tree, filtered)
        IN  /\ search_var' = text
            /\ filtered_services' = filtered
            /\ tree' = shown.tree
            /\ log' = Printed(log, shown.log)
            /\ event' = Event("filter_services")
            /\ UNCHANGED <<all_services, heading, sessionVars, log_text>>
            /\ UNCHANGED <<auto_refresh_interval, timers, fetching, refresh_button>>

\* a click on a column heading: sort_column(col, reverse), line 1105-1133
SortColumn ==
    \E col \in Columns :
        LET reverse == heading[col]
            sorted_data == Sorted(filtered_services, col, reverse)
            shown == UpdateTreeview(tree, sorted_data)
        IN  /\ filtered_services' = sorted_data
            /\ tree' = shown.tree
            /\ log' = Printed(log, shown.log)
            /\ heading' = [heading EXCEPT ![col] = ~reverse]
            /\ event' = Event("sort_column")
            /\ UNCHANGED <<all_services, search_var, sessionVars, log_text>>
            /\ UNCHANGED <<auto_refresh_interval, timers, fetching, refresh_button>>

TableNext ==
    \/ RefreshButton
    \/ PollResult
    \/ KeyRelease
    \/ SortColumn

(***************************************************************************)
(* The timer, the preferences and control_service.                         *)
(***************************************************************************)
\* a slip: the timer runs whatever the interval
AutoRefreshOn_Always(interval) == TRUE

\* line 950, line 1195: self.auto_refresh_interval > 0
AutoRefreshOn(interval) == interval > 0

\* a slip: the callback that fired stays pending
Rescheduled_Kept(pending, k, delay) == Append(pending, delay)

\* root.after(delay, self.auto_refresh) from the callback that was the k-th
\* pending one: it is gone, the new one is pending
Rescheduled(pending, k, delay) ==
    Append(SubSeq(pending, 1, k - 1) \o SubSeq(pending, k + 1, Len(pending)), delay)

\* auto_refresh, line 1194-1197, run by root.after when a delay has passed
AutoRefresh ==
    /\ \E k \in 1..Len(timers) :
          IF AutoRefreshOn(auto_refresh_interval)
          THEN /\ RefreshServices
               /\ timers' = Rescheduled(timers, k, auto_refresh_interval * 1000)
               /\ event' = [Event("auto_refresh") EXCEPT
                               !.refresh = TRUE, !.after = auto_refresh_interval * 1000]
          ELSE /\ timers' = SubSeq(timers, 1, k - 1) \o SubSeq(timers, k + 1, Len(timers))
               /\ event' = Event("auto_refresh")
               /\ UNCHANGED <<fetching, refresh_button>>
    /\ UNCHANGED <<auto_refresh_interval, tableVars, sessionVars, log_text>>

\* ConfigWindow.save_config with valid entries, line 511-544:
\* set_preferences, apply_preferences (line 1023-1028), showinfo
SavePreferences ==
    \E interval \in Intervals :
        /\ auto_refresh_interval' = interval
        /\ RefreshServices
        /\ event' = [Event("apply_preferences") EXCEPT !.refresh = TRUE, !.box = "showinfo"]
        /\ UNCHANGED <<timers, tableVars, sessionVars, log_text>>

\* 'start', 'stop', 'restart'
ControlActions ==
    {<<115, 116, 97, 114, 116>>, <<115, 116, 111, 112>>,
     <<114, 101, 115, 116, 97, 114, 116>>}

\* app_id: None, or the text of a row's id ('0', '1') or 'all' (control_all),
\* 'All'
NoAppId == [given |-> FALSE]
AppId(text) == [given |-> TRUE, text |-> text]
AppIds == {NoAppId, AppId(<<48>>), AppId(<<49>>), AppId(<<97, 108, 108>>), AppId(<<65, 108, 108>>)}

\* line 358-361: the command for an action and a target
ControlCommand(action, app_id) ==
    IF Lower(app_id.text) = <<97, 108, 108>>
    THEN Pm2Prefix \o action \o <<32, 97, 108, 108>>
    ELSE Pm2Prefix \o action \o <<32>> \o app_id.text

\* a slip: the command is issued whatever the answer
Confirmed_Always(confirmation) == TRUE

\* line 367: the answer of askyesno lets the action go on
Confirmed(confirmation) == confirmation

\* line 371: output is not None
Succeeded(output) == output.ok

\* control_service, line 356-376, run to its end by its thread: the
\* warning without a target, the confirmation, execute_command and its
\* result, then showinfo and refresh_callback() or showerror
ControlService ==
    \E action \in ControlActions, app_id \in AppIds, confirmation \in BOOLEAN,
       output \in {None} \cup {Some(o) : o \in Outs} :
        /\ IF ~app_id.given
           THEN /\ event' = [Event("control_service") EXCEPT !.box = "showwarning"]
                /\ UNCHANGED <<fetching, refresh_button>>
           ELSE IF ~Confirmed(confirmation)
           THEN /\ event' = [Event("control_service") EXCEPT !.confirm = "no"]
                /\ UNCHANGED <<fetching, refresh_button>>
           ELSE IF Succeeded(output)
           THEN /\ event' = [Event("control_service") EXCEPT
                                !.confirm = IF confirmation THEN "yes" ELSE "no",
                                !.cmd = ControlCommand(action, app_id),
                                !.res = "ok",
                                !.box = "showinfo",
                                !.args = {<<"action", action>>},
                                !.refresh = TRUE]
                /\ RefreshServices
           ELSE /\ event' = [Event("control_service") EXCEPT
                                !.confirm = IF confirmation THEN "yes" ELSE "no",
                                !.cmd = ControlCommand(action, app_id),
                                !.res = "fail",
                                !.box = "showerror",
                                !.args = {<<"action", action>>}]
                /\ UNCHANGED <<fetching, refresh_button>>
        /\ UNCHANGED <<auto_refresh_interval, timers, tableVars, sessionVars, log_text>>

\* the listings the polls of the timer's specification return
TimerMaxId == 1
TimerListings == ListingsUpTo(TimerMaxId, 1)

TimerPoll == FetchAndDisplay(TimerListings)

\* initialize_application has returned, line 722-750: the session is
\* connected, setup_ui has started the timer if the interval is positive
\* (line 950-951), and apply_preferences and refresh_services (line 747-748)
\* have each started a fetch
TimerInit ==
    /\ client = "Handle"
    /\ transport = "active"
    /\ lock = {}
    /\ stack = [p \in Procs |-> <<>>]
    /\ constructed = TRUE
    /\ closed = FALSE
    /\ all_services = <<>>
    /\ filtered_services = <<>>
    /\ search_var = PlaceholderText
    /\ tree = <<>>
    /\ log = EmptyLog
    /\ heading = [col \in Columns |-> FALSE]
    /\ auto_refresh_interval \in StartIntervals
    /\ timers = IF AutoRefreshOn(auto_refresh_interval)
                THEN <<auto_refresh_interval * 1000>> ELSE <<>>
    /\ fetching = Len(timers) + 2
    /\ refresh_button = "disabled"
    /\ event = [Event("initialize_application") EXCEPT !.refresh = TRUE]
    /\ log_text = NoLogWindow

TimerNext ==
    \/ AutoRefresh
    \/ RefreshButton
    \/ SavePreferences
    \/ ControlService
    \/ TimerPoll

TimerSpec == TimerInit /\ [][TimerNext]_vars

(***************************************************************************)
(* The start of the application: PM2MonitorApp.__init__ with a stored       *)
(* server configuration calls initialize_application, which constructs the *)
(* session (its connect() with the probes) and then decides on its handle. *)
(***************************************************************************)
StartInit ==
    /\ client = "None"
    /\ transport = "none"
    /\ lock = {}
    /\ stack = [p \in Procs |-> IF p = 0 THEN <<ConnectFrame>> ELSE <<>>]
    /\ constructed = FALSE
    /\ closed = FALSE
    /\ all_services = <<>>
    /\ filtered_services = <<>>
    /\ search_var = PlaceholderText
    /\ tree = <<>>
    /\ log = EmptyLog
    /\ heading = [col \in Columns |-> FALSE]
    /\ auto_refresh_interval \in StartIntervals
    /\ timers = <<>>
    /\ fetching = 0
    /\ refresh_button = "normal"
    /\ event = NoEvent
    /\ log_text = NoLogWindow

\* line 736: self.ssh_client.client is None
NoSession == client = "None"

\* initialize_application, line 729-750, from the return of the session's
\* constructor: without a handle the error box and nothing else; with one,
\* initialized = True, setup_ui (which starts the timer if the interval is
\* positive, line 950-951), apply_preferences and refresh_services
InitializeApplication ==
    /\ ~constructed
    /\ Depth(0) = 1
    /\ Running(0, "connect", "ret")
    /\ ~ReturnPending
    /\ stack' = [stack EXCEPT ![0] = <<>>]
    /\ constructed' = TRUE
    /\ IF NoSession
       THEN /\ event' = [Event("initialize_application") EXCEPT !.box = "showerror"]
            /\ UNCHANGED <<timers, fetching, refresh_button>>
       ELSE /\ timers' = IF AutoRefreshOn(auto_refresh_interval)
                         THEN <<auto_refresh_interval * 1000>> ELSE <<>>
            /\ fetching' = Len(timers') + 2
            /\ refresh_button' = "disabled"
            /\ event' = [Event("initialize_application") EXCEPT !.refresh = TRUE]
    /\ UNCHANGED <<client, transport, lock, closed, auto_refresh_interval, tableVars, log_text>>

\* a connect() that execute_command made returns to it
ReconnectReturn == Depth(0) > 1 /\ ConnectReturn(0)

StartNext ==
    \/ ConnectNew(0)
    \/ ConnectTransport(0)
    \/ Probe(0)
    \/ ReconnectReturn
    \/ Acquire(0)
    \/ Check1(0)
    \/ Check2(0)
    \/ Issue(0)
    \/ Read(0)
    \/ Retry(0)
    \/ Check3(0)
    \/ ExecReturn(0)
    \/ InitializeApplication
    \/ Drop

StartSpec == StartInit /\ [][StartNext]_vars

(***************************************************************************)
(* Two fetch_and_display threads at once, as apply_preferences and         *)
(* refresh_services start them (line 747-748): each has its listing and    *)
(* runs line 1038-1045 statement by statement.                             *)
(***************************************************************************)
OverlapListings == ListingsUpTo(MaxId, 1)

\* fetch_and_display with its listing: pc is "got", "existing", "rows",
\* "deletes" or "end"; existing_items, the list the loop runs over, the
\* loop's position and new_ids are the locals of update_treeview
DisplayFrame(services) ==
    [fn |-> "display", pc |-> "got", services |-> services, existing_items |-> <<>>,
     ids |-> <<>>, iter |-> <<>>, k |-> 1, new_ids |-> {}]

\* line 1038 and filter_services, line 1048-1057
DisplayTake(p) ==
    /\ Running(p, "display", "got")
    /\ all_services' = Top(p).services
    /\ filtered_services' = FilterServices(Top(p).services, search_var)
    /\ stack' = SetTop(p, [Top(p) EXCEPT !.pc = "existing"])
    /\ UNCHANGED <<client, transport, lock, constructed, closed, search_var, tree, log,
                   heading, appVars, log_text>>

\* update_treeview, line 1063-1067: existing_items is read from the tree
\* and the loop takes the list that filtered_services names now
DisplayExisting(p) ==
    /\ Running(p, "display", "existing")
    /\ stack' = SetTop(p, [Top(p) EXCEPT !.pc = "rows",
                                         !.existing_items = ExistingItems(tree),
                                         !.ids = RowIds(tree),
                                         !.iter = filtered_services])
    /\ UNCHANGED <<client, transport, lock, constructed, closed, tableVars, appVars, log_text>>

\* update_treeview, line 1067-1094: one turn of the loop, or its end; an
\* update of an item that is gone and an insert of an iid that is there
\* raise TclError, which line 1099 catches: the deletes are skipped
DisplayRow(p) ==
    /\ Running(p, "display", "rows")
    /\ LET f == Top(p) IN
       IF f.k > Len(f.iter)
       THEN /\ stack' = SetTop(p, [f EXCEPT !.pc = "deletes"])
            /\ UNCHANGED tree
       ELSE LET svc == f.iter[f.k]
                there == \E j \in 1..Len(tree) : tree[j].iid = svc.ID
                next == [f EXCEPT !.k = @ + 1, !.new_ids = @ \cup {svc.ID}]
            IN  IF svc.ID \in DOMAIN f.existing_items
                THEN IF \E j \in 1..Len(tree) : tree[j].iid = f.existing_items[svc.ID]
                     THEN /\ tree' = [j \in 1..Len(tree) |->
                                        IF tree[j].iid = f.existing_items[svc.ID]
                                        THEN [tree[j] EXCEPT !.values = svc] ELSE tree[j]]
                          /\ stack' = SetTop(p, next)
                     ELSE /\ stack' = SetTop(p, [next EXCEPT !.pc = "end"])
                          /\ UNCHANGED tree
                ELSE IF there
                     THEN /\ stack' = SetTop(p, [next EXCEPT !.pc = "end"])
                          /\ UNCHANGED tree
                     ELSE /\ tree' = Append(tree, Row(svc))
                          /\ stack' = SetTop(p, next)
    /\ UNCHANGED <<client, transport, lock, constructed, closed, all_services,
                   filtered_services, search_var, log, heading, appVars, log_text>>

\* tree.delete of the items in turn, up to the first that is gone already
\* (TclError)
RECURSIVE DeleteItems(_, _)
DeleteItems(t, items) ==
    IF items = <<>> THEN t
    ELSE IF \E j \in 1..Len(t) : t[j].iid = Head(items)
    THEN DeleteItems(SelectRows(t, {Head(items)}), Tail(items))
    ELSE t

\* update_treeview, line 1096-1099: the existing items whose id the loop
\* did not meet are deleted
DisplayDeletes(p) ==
    /\ Running(p, "display", "deletes")
    /\ LET f == Top(p)
           gone == DeletedIds(f.ids, f.new_ids)
       IN  tree' = DeleteItems(tree, [j \in 1..Len(gone) |-> f.existing_items[gone[j]]])
    /\ stack' = SetTop(p, [Top(p) EXCEPT !.pc = "end"])
    /\ UNCHANGED <<client, transport, lock, constructed, closed, all_services,
                   filtered_services, search_var, log, heading, appVars, log_text>>

\* line 1045: the button is enabled again and the thread ends
DisplayEnd(p) ==
    /\ Running(p, "display", "end")
    /\ stack' = [stack EXCEPT ![p] = <<>>]
    /\ fetching' = fetching - 1
    /\ refresh_button' = "normal"
    /\ event' = Event("fetch_and_display")
    /\ UNCHANGED <<client, transport, lock, constructed, closed, tableVars,
                   auto_refresh_interval, timers, log_text>>

\* initialize_application has returned: both threads have their listing
OverlapInit ==
    /\ client = "Handle"
    /\ transport = "active"
    /\ lock = {}
    /\ \E first, second \in OverlapListings :
          stack = [p \in Procs |-> IF p = 1 THEN <<DisplayFrame(first)>>
                                   ELSE IF p = 2 THEN <<DisplayFrame(second)>>
                                   ELSE <<>>]
    /\ constructed = TRUE
    /\ closed = FALSE
    /\ all_services = <<>>
    /\ filtered_services = <<>>
    /\ search_var = PlaceholderText
    /\ tree = <<>>
    /\ log = EmptyLog
    /\ heading = [col \in Columns |-> FALSE]
    /\ auto_refresh_interval = 0
    /\ timers = <<>>
    /\ fetching = 2
    /\ refresh_button = "disabled"
    /\ event = [Event("initialize_application") EXCEPT !.refresh = TRUE]
    /\ log_text = NoLogWindow

OverlapStep(p) ==
    \/ DisplayTake(p)
    \/ DisplayExisting(p)
    \/ DisplayRow(p)
    \/ DisplayDeletes(p)
    \/ DisplayEnd(p)

OverlapNext == \E p \in {1, 2} : OverlapStep(p)

OverlapSpec == OverlapInit /\ [][OverlapNext]_vars

\* the table on its own: its handlers one at a time, the session left alone
TableSpec == Init /\ [][TableNext]_vars

(***************************************************************************)
(* One reconcile step on its own: the table shows any rows, any filtered   *)
(* listing has arrived, update_treeview runs (and may run again).          *)
(***************************************************************************)
DiffMaxId == 4
DiffMaxServices == 3

DiffInit ==
    /\ client = "None"
    /\ transport = "none"
    /\ lock = {}
    /\ stack = [p \in Procs |-> <<>>]
    /\ constructed = FALSE
    /\ closed = FALSE
    /\ search_var \in {<<>>, PlaceholderText}
    /\ heading = [col \in Columns |-> FALSE]
    /\ log = EmptyLog
    /\ auto_refresh_interval = 0
    /\ timers = <<>>
    /\ fetching = 0
    /\ refresh_button = "normal"
    /\ event = NoEvent
    /\ log_text = NoLogWindow
    /\ \E shown \in ListingsUpTo(DiffMaxId, DiffMaxServices) :
         tree = [k \in 1..Len(shown) |-> Row(shown[k])]
    /\ filtered_services \in ListingsUpTo(DiffMaxId, DiffMaxServices)
    /\ all_services = filtered_services

\* filter_services, line 1047-1058, with the same records and the same
\* (empty) search text: filtered_services is set again and update_treeview runs
Reconcile ==
    LET filtered == FilterServices(all_services, search_var)
        shown == UpdateTreeview(tree, filtered)
    IN  /\ filtered_services' = filtered
        /\ tree' = shown.tree
        /\ log' = Printed(log, shown.log)
        /\ UNCHANGED <<all_services, search_var, heading, sessionVars, appVars, log_text>>

DiffSpec == DiffInit /\ [][Reconcile]_vars

(***************************************************************************)
(* The claims.                                                             *)
(***************************************************************************)
ProcFrames(p) == {stack[p][k] : k \in 1..Len(stack[p])}
ExecFrames(p) == {f \in ProcFrames(p) : f.fn = "exec"}
AllExecFrames == UNION {ExecFrames(p) : p \in Procs}

\* p is at 'with self.lock' and holds the lock itself: it waits for ever
WaitsForOwnLock(p) == Running(p, "exec", "lock") /\ lock = {p}

\* p is inside the critical section of execute_command
InCriticalSection(p) == \E f \in ExecFrames(p) : f.pc \notin {"lock", "done"}

\* p is between its failed first attempt and the end of its retried attempt
InRetry(p) == \E f \in ExecFrames(p) : f.pc \in {"retry", "check3", "exec2", "read2"}

IsPm2Command(cmd) == Len(cmd) >= 4 /\ SubSeq(cmd, 1, 4) = <<112, 109, 50, 32>>

\* C1: when the first attempt of execute_command fails with a transport
\* error and the reconnect succeeds, the call goes on to its second attempt
\* (it does not wait for ever), and a call that ends so has issued the
\* command twice and returns the second attempt's output.
C1_RetryAfterReconnect ==
    \A p \in Procs :
        /\ \A k \in 1..(Depth(p) - 1) :
              ( /\ stack[p][k].fn = "exec"
                /\ stack[p][k].pc = "check3"
                /\ stack[p][k].v1 = "transport"
                /\ stack[p][k + 1].fn = "connect"
                /\ stack[p][k + 1].pc = "probe" )
              => ~WaitsForOwnLock(p)
        /\ \A f \in ExecFrames(p) :
              (f.pc = "done" /\ f.v1 = "transport" /\ f.v2 = "ok")
              => (f.att = 2 /\ f.res = Some(f.out))

\* C2: at most one thread at a time is inside execute_command's critical
\* section (between taking the lock and returning), and that thread holds
\* the lock: no second caller issues its command before the first returned.
C2_MutualExclusion ==
    \A p \in Procs :
        InCriticalSection(p) =>
            /\ lock = {p}
            /\ \A q \in Procs \ {p} : ~InCriticalSection(q)

C2_Witness ==
    \E p \in Workers, q \in Workers :
        /\ p # q
        /\ Running(p, "exec", "read1")
        /\ Running(q, "exec", "lock")

\* C3: while a caller is between its failed first attempt and its retried
\* attempt, no other caller is past the lock (none issues a command) and no
\* other caller runs connect().
C3_AtomicRetry ==
    \A p \in Procs :
        InRetry(p) =>
            \A q \in Procs \ {p} : \A f \in ProcFrames(q) :
                /\ f.fn # "connect"
                /\ f.fn = "exec" => f.pc \in {"lock", "done"}

C3_Witness ==
    \E p \in Workers, q \in Workers :
        /\ p # q
        /\ Running(p, "exec", "exec2")
        /\ Top(p).v1 = "transport"
        /\ Running(q, "exec", "lock")

\* C4: one execute_command call makes at most two attempts, and a call whose
\* second attempt failed returns None.
C4_ExactlyOneRetry ==
    \A f \in AllExecFrames :
        /\ f.att <= 2
        /\ f.iss <= f.att
        /\ (f.pc = "done" /\ f.att = 2 /\ f.v2 # "ok") => f.res = None

C4_Witness ==
    \E f \in AllExecFrames : f.pc = "done" /\ f.att = 2 /\ f.v2 = "transport" /\ f.res = None

\* C5: a call that found the transport absent or inactive and whose
\* reconnect left it not active issues nothing, does not wait for ever, and
\* returns None.
C5_FailAfterFailedReconnect ==
    \A p \in Procs : \A f \in ExecFrames(p) :
        f.live = "failed" =>
            /\ f.iss = 0
            /\ ~WaitsForOwnLock(p)
            /\ f.pc = "done" => f.res = None

\* C6: an attempt that read a non-empty stderr is refused if and only if
\* the command does not start with 'pm2 '; a 'pm2 ' command is never refused
\* for its stderr, and an attempt that is not refused returns what it read
\* from stdout.
C6_ErrorChannelPolicy ==
    \A f \in AllExecFrames :
        LET v == IF f.v2 # "none" THEN f.v2 ELSE f.v1
        IN  /\ v \in {"ok", "stderr"} =>
                ((v = "stderr") <=> (f.err # "" /\ ~IsPm2Command(f.cmd)))
            /\ v = "ok" => (f.pc = "done" /\ f.res = Some(f.out))

C6_Witness ==
    \E f \in AllExecFrames :
        /\ IsPm2Command(f.cmd)
        /\ f.err # ""
        /\ f.pc = "done"
        /\ f.res = Some("x")

\* C7: once the session is constructed, no step of connect() or close()
\* replaces or clears the handle or its transport while another thread is
\* inside execute_command's critical section.
C7_TransitionsUnderLock ==
    [][constructed =>
         \A p \in Procs :
            ( /\ stack'[p] # stack[p]
              /\ Depth(p) > 0
              /\ Top(p).fn \in {"connect", "close"}
              /\ (client' # client \/ transport' # transport) )
            => \A q \in Procs \ {p} : ~InCriticalSection(q)]_vars

\* C8: an execute_command called after close() has completed issues no
\* command, does not wait for ever, and returns None.
C8_ClosedRefuses ==
    \A p \in Workers :
        Depth(p) > 0 /\ stack[p][1].afterClose =>
            /\ \A f \in ExecFrames(p) : f.iss = 0
            /\ ~WaitsForOwnLock(p)
            /\ stack[p][1].pc = "done" => stack[p][1].res = None

\* the elements of seq that are in S, in their order
Restrict(seq, S) == SelectSeq(seq, LAMBDA x : x \in S)

\* C9: update_treeview on displayed ids P and records with unique ids F
\* deletes exactly the rows of P \ F, inserts exactly the records of F \ P,
\* after the existing rows and in the listing's order, updates exactly the
\* rows of P \cap F where they stand, and leaves every row with its
\* record's values.
C9_DiffCorrect ==
    [][LET P == RowIds(tree)
           F == Ids(filtered_services)
           both == Range(P) \cap Range(F)
       IN  /\ Range(log'.deleted) = Range(P) \ Range(F)
           /\ Len(log'.deleted) = Cardinality(Range(P) \ Range(F))
           /\ log'.inserted = Restrict(F, Range(F) \ Range(P))
           /\ Range(log'.updated) = both
           /\ Len(log'.updated) = Cardinality(both)
           /\ RowIds(tree') = Restrict(P, both) \o Restrict(F, Range(F) \ Range(P))
           /\ \A k \in 1..Len(tree') :
                 /\ tree'[k].values \in Range(filtered_services)
                 /\ tree'[k].iid = tree'[k].values.ID]_vars

\* previous ids 1, 2, 3 and fresh ids 2, 3, 4
C9_Witness ==
    /\ log.deleted = <<1>>
    /\ log.inserted = <<4>>
    /\ Range(log.updated) = {2, 3}
    /\ RowIds(tree) = <<2, 3, 4>>
    /\ Ids(filtered_services) = <<3, 4, 2>>

\* the search text matches the name
Matches(text, name) ==
    \/ Lower(text) \in {<<>>, Lower(PlaceholderText)}
    \/ \E k \in 1..Len(name) : \E j \in k..Len(name) :
          Lower(SubSeq(name, k, j)) = Lower(text)

\* C10: after every handler of the table (a poll's result, a key released
\* in the search entry, a sort) the displayed ids are exactly the ids of the
\* records of all_services whose name matches the search text, no id is
\* displayed twice, and every row carries the record of all_services with
\* its id.
C10_DisplayIsFilter ==
    /\ Range(RowIds(tree)) =
          {r.ID : r \in {x \in Range(all_services) : Matches(search_var, x.name)}}
    /\ Cardinality(Range(RowIds(tree))) = Len(tree)
    /\ \A k \in 1..Len(tree) : tree[k].values \in Range(all_services)

C10_Witness ==
    /\ search_var = <<87, 101, 98>>
    /\ Len(all_services) = 2
    /\ Len(tree) = 1
    /\ tree[1].values.cpu = 50
    /\ log.updated = <<1>>

\* C11: filter_services/update_treeview run again with the same records and
\* the same empty search text leaves the rows and their order as the run
\* before left them, and inserts and deletes nothing.
C11_ReconcileIdempotent ==
    [][log.runs >= 1 =>
          /\ tree' = tree
          /\ filtered_services' = filtered_services
          /\ log'.inserted = <<>>
          /\ log'.deleted = <<>>
          /\ log'.updated = Ids(filtered_services)]_vars

\* the second run after a run on ids 3, 4, 2
C11_Witness ==
    /\ log.runs = 2
    /\ Ids(filtered_services) = <<3, 4, 2>>
    /\ Len(tree) = 3
    /\ log.inserted = <<>>
    /\ log.deleted = <<>>
    /\ log.updated = <<3, 4, 2>>

\* the step was a manual refresh: the refresh button, saved preferences, or
\* the refresh after a control action
ManualRefresh ==
    \/ event'.by \in {"refresh_button", "apply_preferences"}
    \/ event'.by = "control_service" /\ event'.refresh

\* C12: once the interval is positive, whatever it was before, a tick is
\* pending (automatic cycles go on), and every tick under a positive interval
\* v starts a fetch and schedules its successor v seconds later.
C12_IntervalChangeTakesEffect ==
    [][/\ auto_refresh_interval' > 0 => Len(timers') >= 1
       /\ (event'.by = "auto_refresh" /\ auto_refresh_interval > 0) =>
              /\ fetching' = fetching + 1
              /\ timers' = <<auto_refresh_interval * 1000>>]_vars

\* C13: at most one auto-refresh callback is pending at any moment, and a
\* manual refresh starts a fetch and leaves the pending callbacks as they are.
C13_OneTimer ==
    /\ [](Len(timers) <= 1)
    /\ [][ManualRefresh => (timers' = timers /\ fetching' = fetching + 1)]_vars

C13_Witness ==
    /\ event.by = "control_service"
    /\ event.refresh
    /\ timers = <<2000>>
    /\ auto_refresh_interval = 1

\* C14: with an interval of zero or less, setup starts no timer, a callback
\* that fires starts no fetch and schedules nothing, and a click on the
\* refresh button still starts a fetch.
C14_DisabledPolling ==
    /\ []((event.by = "initialize_application" /\ auto_refresh_interval <= 0)
              => timers = <<>>)
    /\ [][auto_refresh_interval <= 0 =>
            /\ event'.by = "auto_refresh" =>
                  /\ fetching' = fetching
                  /\ ~event'.refresh
                  /\ event'.after = 0
                  /\ Len(timers') = Len(timers) - 1
            /\ event'.by = "refresh_button" => fetching' = fetching + 1]_vars

C14_Witness ==
    /\ event.by = "auto_refresh"
    /\ auto_refresh_interval = 0
    /\ ~event.refresh
    /\ timers = <<>>

\* C15: control_service hands a command to execute_command only after the
\* confirmation was answered yes; a declined confirmation executes nothing,
\* requests no refresh and shows no failure, and without a target nothing is
\* executed and no confirmation is asked.
C15_ConfirmationGate ==
    event.by = "control_service" =>
        /\ event.cmd # <<>> => event.confirm = "yes"
        /\ event.res # "none" => event.confirm = "yes"
        /\ event.confirm = "no" =>
              /\ event.cmd = <<>>
              /\ event.res = "none"
              /\ ~event.refresh
              /\ event.box = "none"
        /\ event.box = "showwarning" =>
              /\ event.cmd = <<>>
              /\ event.res = "none"
              /\ ~event.refresh
              /\ event.confirm = "none"

C15_Witness ==
    /\ event.by = "control_service"
    /\ event.confirm = "no"
    /\ event.cmd = <<>>
    /\ fetching = 0

\* C16: a confirmed control_service ends with exactly one of two signals: a
\* refresh request when execute_command succeeded, or a failure when it
\* returned None, and the failure carries the action and the target.
C16_ExactlyOneOutcome ==
    (event.by = "control_service" /\ event.confirm = "yes") =>
        LET failed == event.box = "showerror"
        IN  /\ event.refresh # failed
            /\ event.refresh <=> event.res = "ok"
            /\ failed <=> event.res = "fail"
            /\ failed => {"action", "app_id"} \subseteq {arg[1] : arg \in event.args}

\* p is a fetch_logs thread
IsTail(p) == Depth(p) > 0 /\ stack[p][1].fn = "fetch_logs"

\* C17: the two tails of a log window do not block each other: no tail
\* waits for the session's lock while the other tail, whose transport or
\* command failed, holds it for ever, and each tail that has ended shows a
\* text of its own (its output, the 'no logs' text or the 'log not found'
\* text).
C17_TailsIndependent ==
    /\ \A p, q \in Workers :
          (p # q /\ IsTail(p) /\ IsTail(q)) =>
              ~(WaitsForOwnLock(q) /\ Running(p, "exec", "lock"))
    /\ \A t \in {"out", "error"} :
          log_text[t] \in {"none", "empty", "no_logs", "log_not_found"} \cup (Outs \ {""})

\* p is a fetch_and_display thread; its frame
IsFetch(p) == Depth(p) > 0 /\ stack[p][1].fn = "fetch"
Fetch(p) == stack[p][1]

\* the CPU usage that the outputs of the CPU commands alone lead to
CpuOf(f) ==
    IF CpuFromMpstat(OutputText(f.out["mpstat"])).ok
    THEN CpuFromMpstat(OutputText(f.out["mpstat"]))
    ELSE CpuFromTop(OutputText(f.out["top"]))

\* C18: CPU and memory collection are independent: however a CPU command
\* ends (a value, output that cannot be read, a failed command), the thread
\* is not stopped for ever inside it before the memory command is issued; a
\* cycle that has returned has issued the memory command, its memory value
\* is the one the memory command's output gives and its CPU value the one
\* the CPU commands' outputs give.
C18_CpuMemoryIndependent ==
    \A p \in Workers :
        IsFetch(p) =>
            /\ Fetch(p).stage \in {"mpstat", "top"} => ~WaitsForOwnLock(p)
            /\ Fetch(p).pc = "returned" =>
                  /\ \E k \in 1..Len(Fetch(p).issued) : Fetch(p).issued[k] = "mem"
                  /\ Fetch(p).memory_usage = MemoryFromFree(OutputText(Fetch(p).out["mem"]))
                  /\ Fetch(p).cpu_usage = CpuOf(Fetch(p))

\* the text the listing command returned to the cycle of thread p
ListingText(p) == OutputText(Fetch(p).out["list"])

\* C19: whatever text the listing command returns, no exception leaves
\* get_pm2_services (no fetch thread is ended by one), and a text that cannot
\* be parsed gives the empty list and the data-format error box.
C19_ParseFailureContained ==
    \A p \in Workers :
        IsFetch(p) =>
            /\ Fetch(p).pc # "raised"
            /\ (Fetch(p).stage # "list" /\ ListingText(p) # <<>> /\ ~JsonLoads(ListingText(p)).ok) =>
                  (Fetch(p).services = <<>> /\ Fetch(p).box = "json_error")

\* a service object as pm2 lists it: a dict with a number as pm_id, whose
\* monit and pm2_env are dicts where present and whose memory is a number
\* where present
IsServiceObject(svc) ==
    /\ svc.t = "obj"
    /\ JsonGet(svc, <<112, 109, 95, 105, 100>>, JNull).t = "num"
    /\ JsonGet(svc, <<109, 111, 110, 105, 116>>, EmptyDict).t = "obj"
    /\ JsonGet(svc, <<112, 109, 50, 95, 101, 110, 118>>, EmptyDict).t = "obj"
    /\ JsonGet(JsonGet(svc, <<109, 111, 110, 105, 116>>, EmptyDict),
               <<109, 101, 109, 111, 114, 121>>, JNum(0)).t = "num"

\* the key is absent from the dict
Absent(obj, key) == \A k \in 1..Len(obj.keys) : obj.keys[k] # key

\* hundredths is bytes/1048576 rounded to two decimals: no hundredth is nearer
RoundedMb(hundredths, bytes) ==
    LET d == hundredths * 1048576 - bytes * 100
    IN  2 * (IF d < 0 THEN 0 - d ELSE d) <= 1048576

\* C20: for a listing that is an array of N service objects with unique
\* pm_id, get_pm2_services returns N records in the listing's order; the
\* i-th record's ID is the i-th element's pm_id as listed, its memory is the
\* element's bytes/1048576 rounded to two decimals (0 without a memory), its
\* version and its port are 'N/A' where the element has none, its cpu is 0
\* where the element has none.
C20_RecordsOfListing ==
    \A p \in Workers :
        (IsFetch(p) /\ Fetch(p).stage # "list" /\ JsonLoads(ListingText(p)).ok) =>
            LET listing == JsonLoads(ListingText(p)).val
                svcs == listing.items
                N == Len(svcs)
                records == Fetch(p).services
                monit(i) == JsonGet(svcs[i], <<109, 111, 110, 105, 116>>, EmptyDict)
                env(i) == JsonGet(svcs[i], <<112, 109, 50, 95, 101, 110, 118>>, EmptyDict)
                pm_id(i) == JsonGet(svcs[i], <<112, 109, 95, 105, 100>>, JNull)
            IN  (/\ listing.t = "arr"
                 /\ \A i \in 1..N : IsServiceObject(svcs[i])
                 /\ \A i, j \in 1..N : i # j => pm_id(i) # pm_id(j)) =>
                    /\ Len(records) = N
                    /\ \A i \in 1..N :
                          /\ records[i].ID = pm_id(i)
                          /\ IF Absent(monit(i), <<109, 101, 109, 111, 114, 121>>)
                             THEN records[i].memory = 0
                             ELSE RoundedMb(records[i].memory,
                                            JsonGet(monit(i), <<109, 101, 109, 111, 114, 121>>, JNull).n)
                          /\ Absent(monit(i), <<99, 112, 117>>) => records[i].cpu = JNum(0)
                          /\ Absent(env(i), <<118, 101, 114, 115, 105, 111, 110>>) =>
                                records[i].version = JStr(<<78, 47, 65>>)
                          /\ Absent(env(i), <<80, 79, 82, 84>>) =>
                                records[i].port = JStr(<<78, 47, 65>>)

\* a listing of two services, the ids 3 and 1 in that order, the second
\* without monit and with an empty pm2_env, has been turned into records
C20_Witness ==
    \E p \in Workers :
        /\ IsFetch(p)
        /\ Fetch(p).stage # "list"
        /\ JsonLoads(ListingText(p)).ok
        /\ Len(JsonLoads(ListingText(p)).val.items) = 2
        /\ \A i \in 1..2 : IsServiceObject(JsonLoads(ListingText(p)).val.items[i])
        /\ Len(Fetch(p).services) = 2
        /\ Fetch(p).services[1].ID = JNum(3)
        /\ Fetch(p).services[2].ID = JNum(1)

\* the place of a stage among the commands a cycle has issued (0: not issued)
IssuedAt(f, stage) ==
    IF \E k \in 1..Len(f.issued) : f.issued[k] = stage
    THEN CHOOSE k \in 1..Len(f.issued) : f.issued[k] = stage
    ELSE 0

\* C21: top is issued only after mpstat, and once mpstat has returned the
\* next command is top exactly if the output of mpstat was no number; when
\* top has returned, the CPU usage is 100 minus the idle percentage its
\* output shows, and unavailable if the output shows none.
C21_FallbackIffPrimaryFails ==
    \A p \in Workers :
        IsFetch(p) =>
            LET f == Fetch(p)
                primary == ParseFloat(OutputText(f.out["mpstat"]))
                parsed == OutputText(f.out["mpstat"]) # <<>> /\ primary.ok
                idle == SearchIdle(OutputText(f.out["top"]))
            IN  /\ IssuedAt(f, "top") > 0 =>
                      (IssuedAt(f, "mpstat") > 0 /\ IssuedAt(f, "mpstat") < IssuedAt(f, "top"))
                /\ (f.stage = "top" \/ IssuedAt(f, "top") > 0) => ~parsed
                /\ f.stage = "mem" => (IssuedAt(f, "top") > 0 <=> ~parsed)
                /\ (f.stage = "mem" /\ IssuedAt(f, "top") > 0) =>
                      IF idle.ok
                      THEN /\ f.cpu_usage.ok
                           /\ f.cpu_usage.val * 10 = 100000 - ParseFloat(idle.text).val
                      ELSE f.cpu_usage = Unavailable

\* mpstat gave no number, top was issued after it and showed 98.3 idle:
\* the usage is 1.7
C21_Witness ==
    \E p \in Workers :
        /\ IsFetch(p)
        /\ Fetch(p).stage = "mem"
        /\ Fetch(p).issued = <<"list", "mpstat", "top">>
        /\ Fetch(p).out["mpstat"] = Some("x")
        /\ Fetch(p).cpu_usage = Percent(170)

\* the days, hours, minutes and seconds that a text of format_uptime shows,
\* read unit by unit
Shown(text) ==
    LET d == UptimeUnit(text, 100)
        h == UptimeUnit(d.rest, 104)
        m == UptimeUnit(h.rest, 109)
        sec == UptimeUnit(m.rest, 115)
    IN  [ok |-> d.ok /\ h.ok /\ m.ok /\ sec.ok,
         days |-> d.val, hours |-> h.val, minutes |-> m.val, seconds |-> sec.val]

\* C22: format_uptime never gives a negative duration: a missing start time
\* and a start time after the current time give 'N/A', and any other result
\* shows days, hours, minutes and seconds that are all >= 0.
C22_UptimeNeverNegative ==
    event.by = "format_uptime" =>
        LET epoch_time == event.args.epoch_time
            current_time == event.args.current_time
        IN  /\ epoch_time = JNull => event.res = NA
            /\ (epoch_time.t = "num" /\ epoch_time.n > current_time) => event.res = NA
            /\ event.res # NA =>
                  /\ Shown(event.res).ok
                  /\ Shown(event.res).days >= 0
                  /\ Shown(event.res).hours >= 0
                  /\ Shown(event.res).minutes >= 0
                  /\ Shown(event.res).seconds >= 0
                  /\ \A k \in 1..Len(event.res) : event.res[k] # 45

\* format_uptime was called with a start time one millisecond after the clock
C22_Witness ==
    /\ event.by = "format_uptime"
    /\ event.args.epoch_time = JNum(1000)
    /\ event.args.current_time = 999
    /\ event.res = NA

\* C23: for every start time (epoch milliseconds) not later than now,
\* format_uptime returns 'Dd Hh Mm Ss' with D*86400 + H*3600 + M*60 + S the
\* whole seconds since the start time and H < 24, M < 60, S < 60.
C23_UptimeDecomposition ==
    (/\ event.by = "format_uptime"
     /\ event.args.epoch_time.t = "num"
     /\ event.args.epoch_time.n <= event.args.current_time) =>
        LET shown == Shown(event.res)
            elapsed == (event.args.current_time - event.args.epoch_time.n) \div 1000
        IN  /\ event.res # NA
            /\ shown.ok
            /\ shown.days * 86400 + shown.hours * 3600 + shown.minutes * 60 + shown.seconds = elapsed
            /\ shown.days >= 0 /\ shown.hours \in 0..23
            /\ shown.minutes \in 0..59 /\ shown.seconds \in 0..59

\* elapsed whole seconds: the turns of each unit, a day and more, 100 days
ElapsedSamples == {0, 1, 59, 60, 61, 3599, 3600, 3661, 86399, 86400, 90061, 8640000}

\* the elapsed seconds that a text of the formatter stands for
ElapsedOf(text) == CHOOSE t \in ElapsedSamples : FormatSeconds(t) = text

\* the last handler was a sort of that column that went through; its direction
SortedOn(col) == event.by = "sort_column" /\ event.box = "none" /\ event.args.col = col
Descending(col) == ~heading[col]

\* C24: parse_uptime is the inverse of the uptime formatter: it turns the
\* text of t elapsed seconds back into t, and a sort by Uptime orders the
\* records by their elapsed seconds (ascending: '0d 23h 59m 59s' before
\* '1d 0h 0m 0s'; descending the other way round).
C24_ParseInvertsFormat ==
    /\ \A t \in ElapsedSamples : ParseUptime(FormatSeconds(t)) = t
    /\ SortedOn("Uptime") =>
          \A i, j \in 1..Len(filtered_services) :
              (/\ i < j
               /\ filtered_services[i].uptime # NA
               /\ filtered_services[j].uptime # NA) =>
                  IF Descending("Uptime")
                  THEN ElapsedOf(filtered_services[i].uptime) >= ElapsedOf(filtered_services[j].uptime)
                  ELSE ElapsedOf(filtered_services[i].uptime) <= ElapsedOf(filtered_services[j].uptime)

\* the listing had '1d 0h 0m 0s' before '0d 23h 59m 59s'; after an ascending
\* sort by Uptime filtered_services holds them the other way round
C24_Witness ==
    /\ SortedOn("Uptime") /\ ~Descending("Uptime")
    /\ Len(all_services) = 2
    /\ all_services[1].uptime = FormatSeconds(86400)
    /\ all_services[2].uptime = FormatSeconds(86399)
    /\ Len(filtered_services) = 2
    /\ filtered_services[1].uptime = FormatSeconds(86399)
    /\ filtered_services[2].uptime = FormatSeconds(86400)

\* a value that is no number: None, 'N/A', any other text float() refuses
NotANumber(x) == x.t = "null" \/ (x.t = "str" /\ (x.s = NA \/ ~ParseFloat(x.s).ok))
\* a number >= 0, as a number or as its text
NonNegative(x) ==
    \/ x.t = "num" /\ x.n >= 0
    \/ x.t = "str" /\ x.s # NA /\ ParseFloat(x.s).ok /\ ParseFloat(x.s).val >= 0

\* C25: a sort by ID, PORT or CPU goes through for every mix of values (no
\* error box), and it puts every record whose value is 'N/A' or no number
\* below every record whose value is a number >= 0: before it in an
\* ascending sort, after it in a descending one.
C25_InvalidSortsLowest ==
    \A col \in {"ID", "PORT", "CPU (%)"} :
        (event.by = "sort_column" /\ event.args.col = col) =>
            /\ event.box = "none"
            /\ \A i, j \in 1..Len(filtered_services) :
                  (/\ NotANumber(Field(filtered_services[i], col))
                   /\ NonNegative(Field(filtered_services[j], col))) =>
                      IF Descending(col) THEN j < i ELSE i < j

\* the records are in the order of their keys in a column, in a direction
InKeyOrder(svcs, col, descending) ==
    \A i, j \in 1..Len(svcs) :
        i < j => IF descending
                 THEN SortKey(col, svcs[i]).num >= SortKey(col, svcs[j]).num
                 ELSE SortKey(col, svcs[i]).num <= SortKey(col, svcs[j]).num

\* C26: before any sort every column's next direction is ascending; each
\* sort of a column that goes through orders the records in that column's
\* next direction, flips that direction and leaves the next direction of
\* every other column as it was.
C26_ToggleFlips ==
    /\ [](event.by = "none" => \A col \in SortColumns : ~heading[col])
    /\ [][(event'.by = "sort_column" /\ event'.box = "none") =>
             LET col == event'.args.col
             IN  /\ InKeyOrder(filtered_services', col, heading[col])
                 /\ heading'[col] = ~heading[col]
                 /\ \A other \in SortColumns \ {col} : heading'[other] = heading[other]]_vars

\* ID was sorted twice, the second time descending, and Uptime once
C26_Witness ==
    /\ SortedOn("ID")
    /\ ~heading["ID"]
    /\ heading["Uptime"]
    /\ Len(filtered_services) = 2
    /\ filtered_services[1].ID = JNum(2)
    /\ filtered_services[2].ID = JNum(1)
    /\ all_services[1].ID = JNum(1)

\* the positions in all_services of the records the search text keeps
KeptPositions ==
    {k \in 1..Len(all_services) : Matches(search_var, all_services[k].name)}

LastLines(n, path) ==
    <<116, 97, 105, 108, 32, 45, 110, 32>> \o Decimal(n) \o <<32, 34>> \o path \o <<34>>

\* C28: a fetch_logs thread that was given an empty path never calls
\* execute_command and ends with the 'log not found' text in its widget;
\* one that was given a path calls execute_command as its first step, with
\* the command that tails the last 100 lines of exactly that path, and
\* writes nothing before that command has returned.
C28_TailOnlyWithPath ==
    /\ [](\A p \in Workers :
            (IsTail(p) /\ Depth(p) >= 2) =>
                /\ stack[p][1].log_path # <<>>
                /\ stack[p][2].fn = "exec"
                /\ stack[p][2].cmd = LastLines(100, stack[p][1].log_path))
    /\ [][\A p \in Workers :
            (Running(p, "fetch_logs", "start") /\ stack'[p] # stack[p]) =>
                IF stack[p][1].log_path = <<>>
                THEN /\ stack'[p] = <<>>
                     /\ log_text' = [log_text EXCEPT ![stack[p][1].log_type] = "log_not_found"]
                ELSE /\ Len(stack'[p]) = 2
                     /\ stack'[p][2].cmd = LastLines(100, stack[p][1].log_path)
                     /\ log_text' = log_text]_vars

\* the stdout tail runs its command while the stderr tail, given no path,
\* has ended with the 'log not found' text
C28_Witness ==
    /\ IsTail(1)
    /\ Depth(1) = 2
    /\ stack[1][1].log_path = <<111>>
    /\ stack[1][2].cmd = LastLines(100, <<111>>)
    /\ stack[2] = <<>>
    /\ log_text.error = "log_not_found"
    /\ log_text.out = "empty"

\* C29: a connect whose transport connect succeeded probes every required
\* command with 'command -v <name>', one after the other, and no probe waits
\* for ever; with all probes made it warns once if and only if a command is
\* missing, and the missing commands leave the session connected.
C29_ProbesThenOneWarning ==
    \A p \in Procs : \A k \in 1..Depth(p) :
        stack[p][k].fn = "connect" =>
            /\ (stack[p][k].pc = "probe" /\ k < Depth(p)) =>
                   /\ stack[p][k + 1].fn = "exec"
                   /\ stack[p][k + 1].cmd =
                         <<99, 111, 109, 109, 97, 110, 100, 32, 45, 118, 32>>
                            \o REQUIRED_COMMANDS[stack[p][k].i]
                   /\ ~(k + 1 = Depth(p) /\ WaitsForOwnLock(p))
            /\ (stack[p][k].pc = "ret" /\ stack[p][k].i > 1) =>
                   /\ stack[p][k].i = Len(REQUIRED_COMMANDS) + 1
                   /\ stack[p][k].warned = (stack[p][k].missing # {})
                   /\ client = "Handle" \/ closed

\* C30: no step of a running background thread changes presentation state
\* (the rows of the table, the refresh button, the log widgets): such
\* state changes only in steps of the main thread.
C30_PresentationFromMainOnly ==
    [][\A p \in Workers :
          (stack[p] # <<>> /\ stack'[p] # stack[p]) =>
              /\ tree' = tree
              /\ refresh_button' = refresh_button
              /\ log_text' = log_text]_vars

\* C31: a close() that finds no handle, as the second of two calls in a row
\* does, returns at once and changes neither the handle nor the transport;
\* a close() that found a handle ends with no handle and no transport, so
\* two calls leave what one call leaves.
C31_CloseIdempotent ==
    [][/\ (Running(0, "close", "test") /\ client = "None" /\ stack'[0] # stack[0]) =>
             /\ stack'[0] = <<>>
             /\ client' = "None"
             /\ transport' = transport
       /\ (Running(0, "close", "clear") /\ stack'[0] # stack[0]) =>
             /\ stack'[0] = <<>>
             /\ client' = "None"
             /\ transport' = "none"]_vars

\* a close() has completed and the next close() is at its test, with no
\* handle left
C31_Witness ==
    /\ closed
    /\ Running(0, "close", "test")
    /\ client = "None"
    /\ transport = "none"
    /\ \A p \in Workers : stack[p] = <<>>

\* C32: no execute_command waits for ever at 'with self.lock': the lock a
\* call waits for is never held by the waiting thread itself, on no path,
\* the reconnects and their probes included, and the lock is held only by
\* a thread that is inside the critical section.
C32_EveryCallReturns ==
    /\ \A p \in Procs : \A k \in 1..Depth(p) :
          (stack[p][k].fn = "exec" /\ stack[p][k].pc = "lock") => lock # {p}
    /\ \A p \in Procs : lock = {p} => InCriticalSection(p)

\* C33: after a sort_column that went through, the rows of the table are
\* the sorted filtered records, row by row in their order.
C33_RowsInSortedOrder ==
    (event.by = "sort_column" /\ event.box = "none") =>
        /\ Len(tree) = Len(filtered_services)
        /\ \A k \in 1..Len(tree) : tree[k].values = filtered_services[k]

\* C34: when the transport connect of the session's constructor failed (no
\* probe was made), initialize_application finds no handle and does not
\* initialize: it starts no fetch cycle and no timer and leaves the refresh
\* button as it was.
C34_FailedConnectStopsStart ==
    [][(/\ ~constructed
        /\ constructed'
        /\ Running(0, "connect", "ret")
        /\ Top(0).i = 1) =>
           /\ client' = "None"
           /\ ~event'.refresh
           /\ fetching' = 0
           /\ timers' = <<>>
           /\ refresh_button' = "normal"]_vars

\* C35: once the overlapping fetch_and_display threads have all ended, the
\* rows of the table are exactly the records of the final all_services
\* that pass the search text, each once.
C35_OverlapConverges ==
    (fetching = 0 /\ \A p \in Workers : stack[p] = <<>>) =>
        /\ {tree[k].values : k \in 1..Len(tree)} =
              {x \in Range(all_services) : Matches(search_var, x.name)}
        /\ Cardinality(Range(RowIds(tree))) = Len(tree)

\* C36: a fetch cycle whose listing command failed (execute_command
\* returned None) leaves all_services and the rows of the table as they
\* were when it displays its result.
C36_FailedPollKeepsRows ==
    [][\A p \in Workers :
          (/\ Running(p, "fetch", "got")
           /\ Top(p).stage = "mem"
           /\ ~Top(p).out["list"].ok
           /\ stack'[p] # stack[p]) =>
              /\ all_services' = all_services
              /\ tree' = tree]_vars

\* C37: the fetch cycle that refresh_services started never waits for
\* ever, and when its thread has ended, by returning or otherwise, the
\* refresh button is enabled again.
C37_ButtonEnabledAgain ==
    \A p \in Workers :
        IsFetch(p) =>
            /\ ~WaitsForOwnLock(p)
            /\ Fetch(p).pc \in {"returned", "raised"} => refresh_button = "normal"

====
